---- MODULE Spec2Model ----
(***************************************************************************)
(* The stepping driver IDAKLUSolverOpenMP::solve of pybammsolvers, on top  *)
(* of an opaque IDA back-end.  Times are small naturals; the content of a  *)
(* vector is a tag saying which back-end call produced it and for which    *)
(* time, so that "the snapshot holds the state of its own time" and "the   *)
(* row was written" are checkable.  Indices keep the source's 0-based      *)
(* values; sequences are 1-based, so buffer slot i is seq[i + 1].          *)
(***************************************************************************)
EXTENDS Integers, Sequences, FiniteSets, TLC

\* ---------------------------------------------------------------- bounds
\* Times are 1 .. MaxT; 0 is the fill value of InitializeStorage.
MaxT == 4
\* Longest t_eval and t_interp a solve request carries.
MaxEvals == 3
MaxInterps == 2

\* ------------------------------------------------------ back-end constants
IDA_SUCCESS == 0
IDA_TSTOP_RETURN == 1
IDA_ROOT_RETURN == 2
IDA_ERR_FAIL == -3
IDA_CONV_FAIL == -4
IDA_YA_YDP_INIT == 1
IDA_Y_INIT == 2

Times == 1 .. MaxT
\* the negative statuses IDASolve is taken to return
FailFlags == {IDA_ERR_FAIL, IDA_CONV_FAIL}

\* ------------------------------------------------------------- data tags
\* The content of a working vector: who produced it, for which time.
Val(src, at) == [src |-> src, at |-> at]
\* A row of the y / yS buffers: the fill of InitializeStorage, a copy of the
\* working vector (full-state mode), or the output expressions evaluated at
\* (tval, working vector) (outputs-only mode).
\* (A sensitivity row of outputs-only mode is computed from the working
\* sensitivities, the working state and tval; w holds the second vector.)
NoVal == Val("none", 0)
ZeroRow == [f |-> "zero", tval |-> 0, v |-> Val("zero", 0), w |-> NoVal]
FullRow(v) == [f |-> "copy", tval |-> 0, v |-> v, w |-> NoVal]
OutRow(tval, v) == [f |-> "var", tval |-> tval, v |-> v, w |-> NoVal]
OutSensRow(tval, v, w) == [f |-> "dvar", tval |-> tval, v |-> v, w |-> w]
\* One entry of the call log.
Call(op, tm, r) == [op |-> op, t |-> tm, r |-> r]

\* --------------------------------------------------------------- helpers
RECURSIVE Fill(_, _)
Fill(n, x) == IF n <= 0 THEN <<>> ELSE Append(Fill(n - 1, x), x)

StrictlyIncreasing(s) == \A i \in 1 .. Len(s) - 1 : s[i] < s[i + 1]

\* The schedules of the data model: t_eval strictly increasing with at least
\* two points, t_interp strictly increasing inside [t_eval[0], t_eval[last]].
EvalSchedules ==
  { s \in UNION { [1 .. n -> Times] : n \in 2 .. MaxEvals } : StrictlyIncreasing(s) }
InterpSchedules(te) ==
  { s \in UNION { [1 .. n -> Times] : n \in 0 .. MaxInterps } :
      /\ StrictlyIncreasing(s)
      /\ \A i \in 1 .. Len(s) : te[1] <= s[i] /\ s[i] <= te[Len(te)] }
\* What a read of t_interp outside its range may yield: any number that lies
\* in memory there, below, among or above the times of the run.
JunkTimes == 0 .. MaxT + 1

VARIABLES
  \* driver members
  number_of_parameters, sensitivity, save_outputs_only, is_ODE, solver_opts,
  t, y, yS,                 \* recorder buffers
  yy, yp, yyS,              \* working vectors
  \* arguments and locals of solve
  t_eval, t_interp, save_adaptive_steps, save_interp_steps,
  i_save, i_eval, i_interp, t_interp_next, t_eval_next, t_val, t_prev, retval,
  pc,                       \* "idle", "stepping", "done", "raised", "undefined"
  log,                      \* back-end and recorder calls of the current solve
  result,                   \* the SolutionData returned
  asm,                      \* the copy loop of the sensitivity tensor (lines 528-548)
  ctor,                     \* the construction of the driver
  guard,                    \* a NoProgressGuard and the calls made on it
  returned,                 \* the results of the earlier solves on this driver
  data,                     \* SolutionData objects, their buffers and capsules
  outs,                     \* a snapshot's output sensitivities being written (lines 736-770)
  pert,                     \* a call of perturb_time
  reg                       \* the IdakluJax objects and their registry

members == <<number_of_parameters, sensitivity, save_outputs_only, is_ODE, solver_opts>>
buffers == <<t, y, yS>>
working == <<yy, yp, yyS>>
args == <<t_eval, t_interp, save_adaptive_steps, save_interp_steps>>
locals == <<i_save, i_eval, i_interp, t_interp_next, t_eval_next, t_val, t_prev, retval>>
driver == <<members, buffers, working, args, locals, pc, log, result>>
\* the parts modelled on their own, each under a specification of its own
\* the parts of the repository run outside solve
units == <<outs, pert, reg>>
components == <<asm, ctor, guard, returned, data, units>>
vars == <<driver, components>>

\* The driver's mutable state as one record, threaded through the helpers.
Cur ==
  [ t |-> t, y |-> y, yS |-> yS, yy |-> yy, yp |-> yp, yyS |-> yyS,
    i_save |-> i_save, i_eval |-> i_eval, i_interp |-> i_interp,
    t_interp_next |-> t_interp_next, t_eval_next |-> t_eval_next,
    t_val |-> t_val, t_prev |-> t_prev, retval |-> retval,
    log |-> log, ub |-> FALSE, thrown |-> FALSE, brk |-> FALSE ]

Logged(s, op, tm, r) == [s EXCEPT !.log = Append(@, Call(op, tm, r))]
\* solve goes no further: an access outside a vector happened (ub), or
\* CheckErrors threw on a negative status (thrown).
Halted(s) == s.ub \/ s.thrown

\* ------------------------------------------------------ back-end primitives
\* The back-end's dense output covers the last step, [t_prev, t_val]; for a
\* time outside it the call returns a negative status.
InLastStep(s, tm) == s.t_prev <= tm /\ tm <= s.t_val
\* CheckErrors(IDAGetDky(t, 0, yy)): dense output of the state at tm into the
\* working vector; CheckErrors throws on a negative status (logged as -1).
IDAGetDky(s, tm) ==
  IF Halted(s) THEN s
  ELSE IF InLastStep(s, tm) THEN Logged([s EXCEPT !.yy = Val("dky", tm)], "IDAGetDky", tm, 0)
  ELSE Logged([s EXCEPT !.thrown = TRUE], "IDAGetDky", tm, -1)
\* CheckErrors(IDAGetSensDky(t, 0, yyS)): dense output of the sensitivities at tm.
IDAGetSensDky(s, tm) ==
  IF Halted(s) THEN s
  ELSE IF InLastStep(s, tm)
    THEN Logged([s EXCEPT !.yyS = Val("sdky", tm)], "IDAGetSensDky", tm, 0)
  ELSE Logged([s EXCEPT !.thrown = TRUE], "IDAGetSensDky", tm, -1)
IDASetStopTime(s, tm) == Logged(s, "IDASetStopTime", tm, 0)

\* ----------------------------------------------------------- the recorder
\* InitializeStorage(N): all three buffers get N zero rows.
InitializeStorage(s, N) ==
  [s EXCEPT !.t = Fill(N, 0), !.y = Fill(N, ZeroRow), !.yS = Fill(N, ZeroRow)]

\* ExtendAdaptiveArrays: one more slot at the back of t and y, and of yS only
\* with sensitivities.
ExtendAdaptiveArrays(s) ==
  Logged([s EXCEPT !.t = Append(@, 0),
                   !.y = Append(@, ZeroRow),
                   !.yS = IF sensitivity THEN Append(@, ZeroRow) ELSE @],
         "ExtendAdaptiveArrays", 0, 0)

\* The row SetStepFull / SetStepOutput stores for the working state.
StateRow(s, tval) == IF save_outputs_only THEN OutRow(tval, s.yy) ELSE FullRow(s.yy)
\* The row SetStepFullSensitivities / SetStepOutputSensitivities stores.
SensRow(s, tval) ==
  IF save_outputs_only THEN OutSensRow(tval, s.yyS, s.yy) ELSE FullRow(s.yyS)

\* A recorder that advances i_save before it writes: slot 0 is never written.
SetStep_IncrementFirst(s, tval) ==
  LET i == s.i_save + 1
      inside == i < Len(s.t) /\ i < Len(s.y) /\ (sensitivity => i < Len(s.yS))
  IN IF Halted(s) \/ ~inside THEN [s EXCEPT !.ub = TRUE]
     ELSE Logged([s EXCEPT !.t[i + 1] = tval,
                           !.y[i + 1] = [f |-> IF save_outputs_only THEN "var" ELSE "copy",
                                         tval |-> IF save_outputs_only THEN tval ELSE 0,
                                         v |-> s.yy, w |-> NoVal],
                           !.i_save = i],
                 "SetStep", tval, i)

\* SetStep(tval, y_val, yS_val, i_save): t[i_save] = tval, the state row, the
\* sensitivity row with sensitivities, then i_save++.  An index at or beyond
\* the length of a buffer it writes is an out-of-bounds write (ub), logged
\* as "OutOfBounds" with the index.
SetStep(s, tval) ==
  LET i == s.i_save
      inside == i < Len(s.t) /\ i < Len(s.y) /\ (sensitivity => i < Len(s.yS))
  IN IF Halted(s) THEN s
     ELSE IF ~inside THEN Logged([s EXCEPT !.ub = TRUE], "OutOfBounds", tval, i)
     ELSE Logged([s EXCEPT !.t[i + 1] = tval,
                           !.y[i + 1] = StateRow(s, tval),
                           !.yS = IF sensitivity
                                    THEN [@ EXCEPT ![i + 1] = SensRow(s, tval)]
                                    ELSE @,
                           !.i_save = i + 1],
                 "SetStep", tval, i)

\* The loop condition of SetStepInterp: i_interp <= t_interp.size() - 1 in
\* size_t arithmetic (for an empty t_interp the right side wraps to the
\* largest size_t).
InterpCursorInRange(i, n) == IF n = 0 THEN TRUE ELSE i <= n - 1
InterpDue(s) == InterpCursorInRange(s.i_interp, Len(t_interp)) /\ s.t_interp_next <= s.t_val

\* t_interp_next = t_interp[i], as the set of its outcomes: inside the vector
\* its element; outside it an out-of-bounds read, which faults (ub) or yields
\* what lies in memory.
ReadInterp(s, ti, i) ==
  IF i < Len(ti) THEN {[s EXCEPT !.t_interp_next = ti[i + 1]]}
  ELSE {[s EXCEPT !.ub = TRUE]} \cup {[s EXCEPT !.t_interp_next = g] : g \in JunkTimes}

\* SetStepInterp: records every pending t_interp point that is <= t_val by
\* dense output, advancing the interp cursor.  The set of its outcomes.
RECURSIVE SetStepInterp(_)
SetStepInterp(s) ==
  IF Halted(s) \/ ~InterpDue(s) THEN {s}
  ELSE LET s1 == IDAGetDky(s, s.t_interp_next)
           s2 == IF sensitivity THEN IDAGetSensDky(s1, s1.t_interp_next) ELSE s1
           s3 == SetStep(s2, s2.t_interp_next)
           s4 == [s3 EXCEPT !.i_interp = @ + 1]
       IN IF Halted(s3) THEN {s3}
          ELSE IF s4.i_interp = Len(t_interp) THEN {s4}
          ELSE UNION { SetStepInterp(r) : r \in ReadInterp(s4, t_interp, s4.i_interp) }

\* ------------------------------------------- reinitialisation, consistent init
\* A reinitialisation that resets the sensitivities whatever their number.
ReinitializeIntegrator_AlwaysSens(s, tm) ==
  Logged(Logged(s, "IDAReInit", tm, 0), "IDASensReInit", tm, 0)

\* ReinitializeIntegrator(t_val): IDAReInit with the working y, y' and, with
\* sensitivities, IDASensReInit.
ReinitializeIntegrator(s, tm) ==
  LET s1 == Logged(s, "IDAReInit", tm, 0)
  IN IF sensitivity THEN Logged(s1, "IDASensReInit", tm, 0) ELSE s1

\* What the back-end's IDACalcIC may do: succeed and leave corrected values in
\* the working vectors, or fail and leave them as they were.  The driver does
\* not examine its status.
ICOutcomes == {"corrected", "failed"}

\* ConsistentInitializationODE(t_val): y_cache = 0, yp = residual(t, yy, y_cache).
\* The log entry shows the arguments: the working state and the zeroed scratch
\* vector in the place of y'.
ConsistentInitializationODE(s, tm) ==
  [s EXCEPT !.yp = Val("res", tm),
            !.log = Append(@, [op |-> "residual_eval", t |-> tm, r |-> 0,
                               y |-> s.yy, ydot |-> Val("zero", 0)])]

\* A consistent initialisation that treats the IDACalcIC status like that of
\* the other back-end calls: a failure is kept as the status and raised.
ConsistentInitializationDAE_Checked(s, tm, t_next, icopt, ic) ==
  LET s1 == IF ic = "corrected"
              THEN [s EXCEPT !.yy = Val("ic", tm), !.yp = Val("ic", tm)]
              ELSE s
      s2 == [s1 EXCEPT !.log = Append(@, [op |-> "IDACalcIC", t |-> t_next,
                                   r |-> IF ic = "failed" THEN IDA_CONV_FAIL ELSE icopt,
                                   icopt |-> icopt])]
  IN IF ic = "failed" THEN [s2 EXCEPT !.retval = IDA_CONV_FAIL, !.thrown = TRUE]
     ELSE s2

\* ConsistentInitializationDAE(t_val, t_next, icopt): IDACalcIC(icopt, t_next).
ConsistentInitializationDAE(s, tm, t_next, icopt, ic) ==
  LET s1 == IF ic = "corrected"
              THEN [s EXCEPT !.yy = Val("ic", tm), !.yp = Val("ic", tm)]
              ELSE s
  IN [s1 EXCEPT !.log = Append(@, [op |-> "IDACalcIC", t |-> t_next,
                                   r |-> IF ic = "failed" THEN IDA_CONV_FAIL ELSE icopt,
                                   icopt |-> icopt])]

\* A dispatch that takes the shortcut for an ODE in every mode.
ConsistentInitialization_AnyMode(s, tm, t_next, icopt, ic) ==
  LET s0 == [s EXCEPT !.log = Append(@, [op |-> "ConsistentInitialization", t |-> tm,
                                         r |-> icopt, t_next |-> t_next])]
  IN IF is_ODE
       THEN ConsistentInitializationODE(s0, tm)
       ELSE ConsistentInitializationDAE(s0, tm, t_next, icopt, ic)

\* ConsistentInitialization: the ODE shortcut iff is_ODE and fix-differential mode.
\* The call itself is logged with its three arguments.
ConsistentInitialization(s, tm, t_next, icopt, ic) ==
  LET s0 == [s EXCEPT !.log = Append(@, [op |-> "ConsistentInitialization", t |-> tm,
                                         r |-> icopt, t_next |-> t_next])]
  IN IF is_ODE /\ icopt = IDA_YA_YDP_INIT
       THEN ConsistentInitializationODE(s0, tm)
       ELSE ConsistentInitializationDAE(s0, tm, t_next, icopt, ic)

\* Variants of the loop's tests, each one slip away from the source.
\* The catch-up only for an interp point strictly after t_prev.
hit_tinterp_Strict(s) == save_interp_steps /\ s.t_interp_next > s.t_prev
\* A root return that is not recognised.
hit_event_Ignored(s) == FALSE
\* Every plain-success step saved, whatever save_adaptive says.
hit_adaptive_AnySuccess(s) == s.retval = IDA_SUCCESS
\* save_adaptive read with the wrong sign.
hit_adaptive_Inverted(s) == ~save_adaptive_steps /\ s.retval = IDA_SUCCESS
\* No test of the status, no test of the time.
Failed_Ignored(s) == FALSE
Duplicate_Ignored(s) == FALSE
\* A stop that is not saved.
SaveCurrent_NoStop(s, hti, had, hte, hev) ==
  IF ~Halted(s) /\ (had \/ hev)
    THEN LET i == s.i_save
             s1 == IF had THEN [s EXCEPT !.t = Append(@, 0), !.y = Append(@, ZeroRow),
                                         !.yS = IF sensitivity THEN Append(@, ZeroRow) ELSE @]
                          ELSE s
         IN IF i < Len(s1.t)
              THEN [s1 EXCEPT !.t[i + 1] = s.t_val,
                              !.y[i + 1] = [f |-> "copy", tval |-> 0, v |-> s.yy, w |-> NoVal],
                              !.i_save = i + 1,
                              !.log = Append(@, Call("SetStep", s.t_val, i))]
              ELSE [s1 EXCEPT !.ub = TRUE]
    ELSE s

\* A snapshot at t_val taken from whatever the catch-up left in the working
\* vectors.
SaveCurrent_NoRestore(s, hti, had, hte, hev) ==
  IF ~Halted(s) /\ (had \/ hte \/ hev)
    THEN LET s2 == IF had THEN [s EXCEPT !.t = Append(@, 0), !.y = Append(@, ZeroRow),
                                         !.yS = IF sensitivity THEN Append(@, ZeroRow) ELSE @,
                                         !.log = Append(@, Call("ExtendAdaptiveArrays", 0, 0))]
                          ELSE s
             i == s2.i_save
         IN IF i < Len(s2.t)
              THEN [s2 EXCEPT !.t[i + 1] = s.t_val,
                              !.y[i + 1] = IF save_outputs_only
                                             THEN [f |-> "var", tval |-> s.t_val, v |-> s.yy, w |-> NoVal]
                                             ELSE [f |-> "copy", tval |-> 0, v |-> s.yy, w |-> NoVal],
                              !.i_save = i + 1,
                              !.log = Append(@, Call("SetStep", s.t_val, i))]
              ELSE [s2 EXCEPT !.ub = TRUE]
    ELSE s

\* ------------------------------------------------------- the loop of solve
hit_tinterp(s) == save_interp_steps /\ s.t_interp_next >= s.t_prev
hit_teval(s) == s.retval = IDA_TSTOP_RETURN
\* A final-time test that looks at the stop cursor only.
hit_final_time_CursorOnly(s) == hit_teval(s) /\ s.i_eval = Len(t_eval)

hit_final_time(s) ==
  s.t_val >= t_eval[Len(t_eval)] \/ (hit_teval(s) /\ s.i_eval = Len(t_eval))
hit_event(s) == s.retval = IDA_ROOT_RETURN
hit_adaptive(s) == save_adaptive_steps /\ s.retval = IDA_SUCCESS

\* Lines 445-460: the sensitivities at t_val, then the interp catch-up.
CatchUp(s, hti) ==
  LET s1 == IF sensitivity THEN IDAGetSensDky(s, s.t_val) ELSE s
  IN IF hti THEN SetStepInterp(s1) ELSE {s1}

\* A snapshot at t_val that restores the state after the catch-up, but not
\* the sensitivities.
SaveCurrent_StateOnlyRestore(s, hti, had, hte, hev) ==
  IF ~Halted(s) /\ (had \/ hte \/ hev)
    THEN LET s1 == IF hti THEN IDAGetDky(s, s.t_val) ELSE s
             s2 == IF had THEN ExtendAdaptiveArrays(s1) ELSE s1
         IN SetStep(s2, s2.t_val)
    ELSE s

\* Lines 462-477: the snapshot at t_val of an adaptive, stop or root step,
\* after restoring the working vectors when the catch-up ran.
SaveCurrent(s, hti, had, hte, hev) ==
  IF ~Halted(s) /\ (had \/ hte \/ hev)
    THEN LET s1 == IF hti
                     THEN LET d == IDAGetDky(s, s.t_val)
                          IN IF sensitivity THEN IDAGetSensDky(d, d.t_val) ELSE d
                     ELSE s
             s2 == IF had THEN ExtendAdaptiveArrays(s1) ELSE s1
         IN SetStep(s2, s2.t_val)
    ELSE s

\* A stop handling that hands the stop just reached to the consistent
\* initialisation as its t_next.
NextStop_StaleStop(s, ic) ==
  LET i == s.i_eval + 1
  IN IF i >= Len(t_eval) THEN [s EXCEPT !.i_eval = i, !.ub = TRUE]
     ELSE LET s1 == [s EXCEPT !.i_eval = i, !.t_eval_next = t_eval[i + 1]]
              s2 == IDASetStopTime(s1, s1.t_eval_next)
              s3 == ReinitializeIntegrator(s2, s2.t_val)
          IN ConsistentInitialization(s3, s3.t_val, s.t_eval_next, IDA_YA_YDP_INIT, ic)

\* A stop handling that runs the consistent initialisation only with calc_ic.
NextStop_OnlyWithCalcIc(s, ic) ==
  LET i == s.i_eval + 1
  IN IF i >= Len(t_eval) THEN [s EXCEPT !.i_eval = i, !.ub = TRUE]
     ELSE LET s1 == [s EXCEPT !.i_eval = i, !.t_eval_next = t_eval[i + 1]]
              s2 == IDASetStopTime(s1, s1.t_eval_next)
              s3 == ReinitializeIntegrator(s2, s2.t_val)
          IN IF solver_opts.calc_ic
               THEN ConsistentInitialization(s3, s3.t_val, s3.t_eval_next,
                                             IDA_YA_YDP_INIT, ic)
               ELSE s3

\* Lines 482-491: after a stop that is not the last, the next stop time,
\* reinitialisation and consistent initialisation in fix-differential mode.
\* (Reading t_eval at or beyond its length is an out-of-bounds read.)
NextStop(s, ic) ==
  LET i == s.i_eval + 1
  IN IF i >= Len(t_eval) THEN [s EXCEPT !.i_eval = i, !.ub = TRUE]
     ELSE LET s1 == [s EXCEPT !.i_eval = i, !.t_eval_next = t_eval[i + 1]]
              s2 == IDASetStopTime(s1, s1.t_eval_next)
              s3 == ReinitializeIntegrator(s2, s2.t_val)
          IN ConsistentInitialization(s3, s3.t_val, s3.t_eval_next, IDA_YA_YDP_INIT, ic)

\* Lines 429-437: the two checks on what IDASolve returned.
Failed(s) == s.retval < 0
Duplicate(s) == s.t_prev = s.t_val

\* Lines 479-493: leave the loop, or set the next stop, and t_prev = t_val.
EndOfIteration(s, hte, hft, hev, ic) ==
  IF Halted(s) THEN s
  ELSE IF hft \/ hev THEN [s EXCEPT !.brk = TRUE]
  ELSE LET s2 == IF hte THEN NextStop(s, ic) ELSE s
       IN [s2 EXCEPT !.t_prev = s2.t_val]

\* One iteration of the loop (lines 429-493) after IDASolve returned
\* (retval, t_val) in s, as the set of its outcomes; brk says that the loop
\* was left.
LoopBody(s, ic) ==
  IF Failed(s) THEN {[s EXCEPT !.brk = TRUE]}
  ELSE IF Duplicate(s) THEN {[s EXCEPT !.retval = IDA_ERR_FAIL, !.brk = TRUE]}
  ELSE LET hti == hit_tinterp(s)
           hte == hit_teval(s)
           hft == hit_final_time(s)
           hev == hit_event(s)
           had == hit_adaptive(s)
       IN { EndOfIteration(SaveCurrent(c, hti, had, hte, hev), hte, hft, hev, ic) :
              c \in CatchUp(s, hti) }

\* IDASolve(tf, &t_val, yy, yp, IDA_ONE_STEP) returning status r at time tv.
IDASolve(s, r, tv) ==
  Logged([s EXCEPT !.retval = r, !.t_val = tv,
                   !.yy = Val("step", tv), !.yp = Val("step", tv)],
         "IDASolve", tv, r)

\* An assembly that reports a stop status as plain success.
Assemble_StopAsSuccess(s) ==
  [flag |-> IF s.retval = IDA_TSTOP_RETURN THEN IDA_SUCCESS ELSE s.retval,
   number_of_timesteps |-> s.i_save,
   t |-> SubSeq(s.t, 1, s.i_save),
   y |-> SubSeq(s.y, 1, s.i_save),
   yS |-> IF number_of_parameters > 0 THEN SubSeq(s.yS, 1, s.i_save) ELSE <<>>,
   yterm |-> IF save_outputs_only THEN <<s.yy>> ELSE <<>>,
   store |-> "own"]

\* Lines 496-550: the SolutionData built from the first i_save rows.
NoResult ==
  [flag |-> 0, number_of_timesteps |-> 0, t |-> <<>>, y |-> <<>>, yS |-> <<>>,
   yterm |-> <<>>, store |-> "own"]

\* An assembly that hands out views of the recorder's vectors.
Assemble_Alias(s) ==
  [flag |-> s.retval,
   number_of_timesteps |-> s.i_save,
   t |-> SubSeq(s.t, 1, s.i_save),
   y |-> SubSeq(s.y, 1, s.i_save),
   yS |-> IF number_of_parameters > 0 THEN SubSeq(s.yS, 1, s.i_save) ELSE <<>>,
   yterm |-> IF save_outputs_only THEN <<s.yy>> ELSE <<>>,
   store |-> "driver"]

\* The arrays are allocated with new[] and filled by copy loops (store "own").
Assemble(s) ==
  [flag |-> s.retval,
   number_of_timesteps |-> s.i_save,
   t |-> SubSeq(s.t, 1, s.i_save),
   y |-> SubSeq(s.y, 1, s.i_save),
   yS |-> IF number_of_parameters > 0 THEN SubSeq(s.yS, 1, s.i_save) ELSE <<>>,
   yterm |-> IF save_outputs_only THEN <<s.yy>> ELSE <<>>,
   store |-> "own"]

\* --------------------------------- the sensitivity tensor (lines 528-550)
\* The dimensions the copy loop is run with.
MaxParams == 2
MaxSnaps == 3
MaxComps == 2
\* Solves a caller runs on one driver.
MaxSolves == 1

\* The recorder's yS[i][k][j]: snapshot i, parameter k, component j.  Each
\* cell holds a tag of its own place, so a copy shows where it was read.
SensCell(i, k, j) == [snap |-> i, param |-> k, comp |-> j]
RecorderSens(N, P, L) ==
  [i \in 0 .. N - 1 |-> [k \in 0 .. P - 1 |-> [j \in 0 .. L - 1 |-> SensCell(i, k, j)]]]
\* what a read outside the vectors may yield: the content of some other place
JunkCells == { SensCell(-1, -1, -1), SensCell(0, 0, 0) }
InsideSens(rec, i, k, j) ==
  i \in DOMAIN rec /\ k \in DOMAIN rec[i] /\ j \in DOMAIN rec[i][k]

\* An index selection that ignores the mode: always the full-state order.
SensIndex_FullOrder(soo, idx0, idx1, idx2) == [i |-> idx1, j |-> idx2, k |-> idx0]

\* Lines 539-541: the recorder indices (i snapshot, j component, k parameter)
\* of the loop indices.
SensIndex(soo, idx0, idx1, idx2) ==
  [i |-> IF soo THEN idx0 ELSE idx1,
   j |-> IF soo THEN idx1 ELSE idx2,
   k |-> IF soo THEN idx2 ELSE idx0]

AsmIdle ==
  [pc |-> "idle", save_outputs_only |-> FALSE, number_of_parameters |-> 0,
   number_of_timesteps |-> 0, length_of_return_vector |-> 0, yS |-> <<>>,
   arg_sens0 |-> 0, arg_sens1 |-> 0, arg_sens2 |-> 0,
   idx0 |-> 0, idx1 |-> 0, idx2 |-> 0, count |-> 0,
   yS_return |-> <<>>, shape |-> <<>>, ub |-> FALSE]
\* The state at line 528: i_save rows recorded, nothing copied yet.
AsmReady(soo, P, N, L) ==
  [AsmIdle EXCEPT !.pc = "ready", !.save_outputs_only = soo,
                  !.number_of_parameters = P, !.number_of_timesteps = N,
                  !.length_of_return_vector = L, !.yS = RecorderSens(N, P, L)]


\* Lines 531-536: the axis lengths, the buffer, count = 0 and the loop heads.
\* The innermost body runs only when all three lengths are positive.
AsmStart ==
  /\ asm.pc = "ready"
  /\ LET a0 == IF asm.save_outputs_only THEN asm.number_of_timesteps
                                        ELSE asm.number_of_parameters
         a1 == IF asm.save_outputs_only THEN asm.length_of_return_vector
                                        ELSE asm.number_of_timesteps
         a2 == IF asm.save_outputs_only THEN asm.number_of_parameters
                                        ELSE asm.length_of_return_vector
     IN asm' = [asm EXCEPT !.arg_sens0 = a0, !.arg_sens1 = a1, !.arg_sens2 = a2,
                           !.idx0 = 0, !.idx1 = 0, !.idx2 = 0, !.count = 0,
                           !.yS_return = <<>>,
                           !.pc = IF a0 > 0 /\ a1 > 0 /\ a2 > 0 THEN "copying"
                                  ELSE "assembled"]
  /\ UNCHANGED <<driver, ctor, guard, returned, data, units>>

\* Lines 537-547: one run of the innermost body, yS_return[count] =
\* yS[i][k][j]; count++, and the loop heads up to the next run of the body.
AsmCopy ==
  /\ asm.pc = "copying"
  /\ LET x == SensIndex(asm.save_outputs_only, asm.idx0, asm.idx1, asm.idx2)
         inside == InsideSens(asm.yS, x.i, x.k, x.j)
         n2 == asm.idx2 + 1
         n1 == asm.idx1 + 1
         n0 == asm.idx0 + 1
     IN \E cell \in IF inside THEN {asm.yS[x.i][x.k][x.j]} ELSE JunkCells :
          asm' = [asm EXCEPT
                    !.yS_return = Append(@, cell),
                    !.count = @ + 1,
                    !.ub = @ \/ ~inside,
                    !.idx2 = IF n2 < asm.arg_sens2 THEN n2 ELSE 0,
                    !.idx1 = IF n2 < asm.arg_sens2 THEN @
                             ELSE IF n1 < asm.arg_sens1 THEN n1 ELSE 0,
                    !.idx0 = IF n2 < asm.arg_sens2 \/ n1 < asm.arg_sens1 THEN @ ELSE n0,
                    !.pc = IF n2 < asm.arg_sens2 \/ n1 < asm.arg_sens1
                              \/ n0 < asm.arg_sens0
                             THEN "copying" ELSE "assembled"]
  /\ UNCHANGED <<driver, ctor, guard, returned, data, units>>

\* Line 550 and SolutionData::generate_solution: the buffer is handed over
\* with the shape (arg_sens0, arg_sens1, arg_sens2).
AsmReturn ==
  /\ asm.pc = "assembled"
  /\ asm' = [asm EXCEPT !.pc = "returned",
                        !.shape = <<asm.arg_sens0, asm.arg_sens1, asm.arg_sens2>>]
  /\ UNCHANGED <<driver, ctor, guard, returned, data, units>>

\* ------------------------------------------------ construction of the driver
\* The names create_idaklu_solver knows, and one it does not.
LinearSolvers ==
  {"SUNLinSol_Dense", "SUNLinSol_KLU", "SUNLinSol_Band", "SUNLinSol_SPBCGS",
   "SUNLinSol_SPFGMR", "SUNLinSol_SPGMR", "SUNLinSol_SPTFQMR"}
LinearSolverNames == LinearSolvers \cup {"SUNLinSol_Other"}
\* The modes SetMatrix knows, and one it does not.
Jacobians == {"sparse", "banded", "dense", "none", "matrix-free"}
JacobianNames == Jacobians \cup {"other"}
Preconditioners == {"none", "BBD"}

\* The variable types of rhs_alg_id in thousandths: differential (1.0) and
\* algebraic (0.0), and the 0.999 of the test of line 304.
Algebraic == 0
Differential == 1000
MaskThreshold == 999

\* A request to build a driver: the setup options, the number of parameters,
\* and whether the back-end hands out a linear solver object; id holds the
\* variable types, one algebraic state unless said otherwise.
CtorRequest(ls, jac, prec, P, made) ==
  [pc |-> "requested", linear_solver |-> ls, jacobian |-> jac,
   preconditioner |-> prec, number_of_parameters |-> P, ls_made |-> made,
   sensitivity |-> FALSE, J |-> "unset", LS |-> "nullptr",
   calls |-> <<>>, error |-> "none", handed |-> FALSE, solves |-> 0,
   alive |-> {}, freed |-> <<>>, id |-> <<Algebraic>>, is_ODE |-> FALSE]
\* the same request for a system with the variable types id
WithMask(c, id) == [c EXCEPT !.id = id]

Raise(c, what) == [c EXCEPT !.pc = "raised", !.error = what]
Called(c, op) == [c EXCEPT !.calls = Append(@, op)]
\* a back-end object is created and held in a raw handle of the driver
Acquire(c, r) == [c EXCEPT !.alive = @ \cup {r}]

\* A SetMatrix that takes an unknown mode for the dense one.
SetMatrix_DefaultDense(c) ==
  [c EXCEPT !.J = IF c.jacobian = "sparse" THEN "SUNSparseMatrix"
                  ELSE IF c.jacobian = "banded" THEN "SUNBandMatrix"
                  ELSE IF c.jacobian = "matrix-free" THEN "NULL"
                  ELSE "SUNDenseMatrix"]

\* SetMatrix: the matrix object of the jacobian mode, or invalid_argument.
SetMatrix(c) ==
  IF c.jacobian = "sparse" THEN Acquire([c EXCEPT !.J = "SUNSparseMatrix"], "J")
  ELSE IF c.jacobian = "banded" THEN Acquire([c EXCEPT !.J = "SUNBandMatrix"], "J")
  ELSE IF c.jacobian \in {"dense", "none"}
    THEN Acquire([c EXCEPT !.J = "SUNDenseMatrix"], "J")
  ELSE IF c.jacobian = "matrix-free" THEN [c EXCEPT !.J = "NULL"]
  ELSE Raise(c, "invalid_argument")

\* A back-end release function op called on the handle of resource r, where
\* held are the resources whose handles are set: on an unset handle it does
\* nothing, on a set one the object is released (freed lists the releases).
Free(c, held, op, r) ==
  IF r \in held
    THEN [Called(c, op) EXCEPT !.alive = @ \ {r}, !.freed = Append(@, r)]
    ELSE Called(c, op)

\* A destructor that frees the context before everything created in it.
Destructor_ContextFirst(c) ==
  LET h == c.alive
      c0 == Free(c, h, "SUNContext_Free", "sunctx")
      c1 == IF c.sensitivity THEN Free(c0, h, "IDASensFree", "sens") ELSE c0
      c2 == Free(Free(Free(c1, h, "SUNLinSolFree", "LS"), h, "SUNMatDestroy", "J"),
                 h, "N_VDestroy", "vectors")
      c3 == IF c.sensitivity THEN Free(c2, h, "N_VDestroyVectorArray", "sens_vectors")
            ELSE c2
      c4 == Free(c3, h, "IDAFree", "ida_mem")
  IN [c4 EXCEPT !.LS = "nullptr", !.J = "unset"]

\* ~IDAKLUSolverOpenMP (lines 311-335): sensitivities, linear solver, matrix,
\* vectors, sensitivity vectors, integrator memory, context.
Destructor(c) ==
  LET h == c.alive
      c1 == IF c.sensitivity THEN Free(c, h, "IDASensFree", "sens") ELSE c
      c2 == Free(Free(Free(c1, h, "SUNLinSolFree", "LS"), h, "SUNMatDestroy", "J"),
                 h, "N_VDestroy", "vectors")
      c3 == IF c.sensitivity THEN Free(c2, h, "N_VDestroyVectorArray", "sens_vectors")
            ELSE c2
      c4 == Free(Free(c3, h, "IDAFree", "ida_mem"), h, "SUNContext_Free", "sunctx")
  IN [c4 EXCEPT !.LS = "nullptr", !.J = "unset"]

\* The constructor of IDAKLUSolverOpenMP (lines 8-90).
BaseConstructor(c) ==
  LET c1 == [c EXCEPT !.sensitivity = c.number_of_parameters > 0]
      c2 == Acquire(Acquire(Called(Called(c1, "SUNContext_Create"), "IDACreate"),
                            "sunctx"), "ida_mem")
      v == IF c2.sensitivity THEN Acquire(Acquire(c2, "vectors"), "sens_vectors")
           ELSE Acquire(c2, "vectors")
      c3 == SetMatrix(v)
  IN IF c3.pc = "raised" THEN c3
     ELSE [Called(Called(Called(Called(c3, "IDAInit"), "IDASVtolerances"),
                         "IDARootInit"), "IDASetUserData")
             EXCEPT !.pc = "base", !.is_ODE = FALSE]

\* Lines 298-305: is_ODE = number_of_states > 0, then for every state ii
\* is_ODE &= id_val[ii] > 0.999.
RECURSIVE IsOdeLoop(_, _, _)
IsOdeLoop(id, ii, acc) ==
  IF ii > Len(id) THEN acc
  ELSE IsOdeLoop(id, ii + 1, acc /\ id[ii] > MaskThreshold)
DetermineIsODE(id) == IsOdeLoop(id, 1, Len(id) > 0)
\* An Initialize that leaves is_ODE as the constructor set it.
Initialize_KeepsDefault(c) ==
  IF c.LS = "nullptr" THEN Raise(c, "invalid_argument")
  ELSE LET c1 == Called(c, "IDASetLinearSolver")
           c2 == IF c.preconditioner # "none" THEN Called(c1, "IDABBDPrecInit") ELSE c1
           c3 == IF c.jacobian = "matrix-free" THEN Called(c2, "IDASetJacTimes")
                 ELSE IF c.jacobian # "none" THEN Called(c2, "IDASetJacFn")
                 ELSE c2
           c4 == IF c.sensitivity
                   THEN Acquire(Called(Called(c3, "IDASensInit"), "IDASensEEtolerances"),
                                "sens")
                   ELSE c3
       IN Called(Called(c4, "SUNLinSolInitialize"), "IDASetId")

\* Initialize (lines 261-309): invalid_argument without a linear solver; else
\* the back-end calls, those of the sensitivities only with sensitivities,
\* and is_ODE from the variable types.
Initialize(c) ==
  IF c.LS = "nullptr" THEN Raise(c, "invalid_argument")
  ELSE LET c1 == Called(c, "IDASetLinearSolver")
           c2 == IF c.preconditioner # "none" THEN Called(c1, "IDABBDPrecInit") ELSE c1
           c3 == IF c.jacobian = "matrix-free" THEN Called(c2, "IDASetJacTimes")
                 ELSE IF c.jacobian # "none" THEN Called(c2, "IDASetJacFn")
                 ELSE c2
           c4 == IF c.sensitivity
                   THEN Acquire(Called(Called(c3, "IDASensInit"), "IDASensEEtolerances"),
                                "sens")
                   ELSE c3
           c5 == Called(c4, "SUNLinSolInitialize")
       IN Called([c5 EXCEPT !.is_ODE = DetermineIsODE(c.id)], "IDASetId")

\* The constructor of a child class IDAKLUSolverOpenMP_*: it sets LS to what
\* the back-end's SUNLinSol_* constructor returned and calls Initialize.
\* When Initialize throws, the base-class part is complete and its
\* destructor runs while the exception leaves the constructor.
ChildConstructor(c) ==
  LET c1 == IF c.ls_made THEN Acquire([c EXCEPT !.LS = c.linear_solver], "LS")
            ELSE [c EXCEPT !.LS = "nullptr"]
      c2 == Initialize(c1)
  IN IF c2.pc = "raised" THEN Destructor(c2) ELSE [c2 EXCEPT !.pc = "constructed"]

\* create_idaklu_solver: the chain of comparisons of linear_solver.
KnownSolver(name) == name \in LinearSolvers

\* The driver an earlier, successful construction left: the one solve runs on.
ConstructedWith(P, id) ==
  [ChildConstructor(BaseConstructor(
      WithMask(CtorRequest("SUNLinSol_Dense", "dense", "none", P, TRUE), id)))
     EXCEPT !.pc = "handed", !.handed = TRUE]
Constructed(P) == ConstructedWith(P, <<Algebraic>>)
\* the variable types of the drivers solve is run on: one state, algebraic
\* or differential
DriverMasks == {<<Algebraic>>, <<Differential>>}

\* create_idaklu_solver up to the end of the base constructor: for an unknown
\* name no constructor runs and invalid_argument is thrown.  An exception
\* out of the base constructor's body runs no destructor of the class: the
\* raw handles are simply dropped.
CtorCreate ==
  /\ ctor.pc = "requested"
  /\ ctor' = IF KnownSolver(ctor.linear_solver) THEN BaseConstructor(ctor)
             ELSE Raise(ctor, "invalid_argument")
  /\ UNCHANGED <<driver, asm, guard, returned, data, units>>

\* The body of the child constructor.
CtorChild ==
  /\ ctor.pc = "base"
  /\ ctor' = ChildConstructor(ctor)
  /\ UNCHANGED <<driver, asm, guard, returned, data, units>>

\* create_idaklu_solver returns the pointer.
CtorReturn ==
  /\ ctor.pc = "constructed"
  /\ ctor' = [ctor EXCEPT !.pc = "handed", !.handed = TRUE]
  /\ UNCHANGED <<driver, asm, guard, returned, data, units>>

\* The caller runs a solve on the driver it was handed.
CtorSolve ==
  /\ ctor.handed
  /\ ctor.pc = "handed"
  /\ ctor.solves < MaxSolves
  /\ ctor' = Called([ctor EXCEPT !.solves = @ + 1], "solve")
  /\ UNCHANGED <<driver, asm, guard, returned, data, units>>

\* The caller drops the driver it was handed: ~IDAKLUSolverOpenMP runs.
CtorDestroy ==
  /\ ctor.pc = "handed"
  /\ ctor' = [Destructor(ctor) EXCEPT !.pc = "destroyed"]
  /\ UNCHANGED <<driver, asm, guard, returned, data, units>>

\* ------------------------------------------------------- NoProgressGuard
\* Largest window, largest threshold and step size (either sign), and the
\* number of AddDt calls followed after a construction or Initialize.
MaxWindow == 3
MaxThreshold == 2
MaxDt == 1
MaxAdds == 4

Disabled(g) == g.window_size_ = 0 \/ g.threshold_sec_ = 0

\* A constructor that fills the window with zeros.
NoProgressGuard_ZeroFill(window_size, threshold_sec) ==
  [window_size_ |-> window_size, threshold_sec_ |-> threshold_sec, idx_ |-> 0,
   dt_window_ |-> IF window_size = 0 \/ threshold_sec = 0 THEN <<>>
                  ELSE Fill(window_size, 0)]

\* NoProgressGuard(window_size, threshold_sec): idx_ = 0 and, unless disabled,
\* a window of window_size entries, each threshold_sec.
NoProgressGuard(window_size, threshold_sec) ==
  [window_size_ |-> window_size, threshold_sec_ |-> threshold_sec, idx_ |-> 0,
   dt_window_ |-> IF window_size = 0 \/ threshold_sec = 0 THEN <<>>
                  ELSE Fill(window_size, threshold_sec)]

\* Initialize(): nothing when disabled; else idx_ = 0 and the window refilled.
InitializeGuard(g) ==
  IF Disabled(g) THEN g
  ELSE [g EXCEPT !.idx_ = 0, !.dt_window_ = Fill(g.window_size_, g.threshold_sec_)]

\* An AddDt that does not advance idx_.
AddDt_SameSlot(g, dt) ==
  IF Disabled(g) THEN g ELSE [g EXCEPT !.dt_window_[g.idx_ + 1] = dt]

\* An AddDt whose idx_ advances without wrapping around.
AddDt_NoWrap(g, dt) ==
  IF Disabled(g) THEN g
  ELSE [g EXCEPT !.dt_window_[g.idx_ + 1] = dt, !.idx_ = g.idx_ + 1]

\* AddDt(dt): nothing when disabled; else dt_window_[idx_] = dt and idx_
\* advances modulo window_size_.
AddDt(g, dt) ==
  IF Disabled(g) THEN g
  ELSE [g EXCEPT !.dt_window_[g.idx_ + 1] = dt,
                 !.idx_ = (g.idx_ + 1) % g.window_size_]

\* The loop of Violated() from entry k on, with the sum so far: false as
\* soon as the running sum reaches threshold_sec_, true at the end.
RECURSIVE ViolatedLoop(_, _, _)
ViolatedLoop(g, k, sum_dt) ==
  IF k > Len(g.dt_window_) THEN TRUE
  ELSE LET s == sum_dt + g.dt_window_[k]
       IN IF s >= g.threshold_sec_ THEN FALSE ELSE ViolatedLoop(g, k + 1, s)

\* Violated(): false when disabled; else the loop over the window.
Violated(g) == IF Disabled(g) THEN FALSE ELSE ViolatedLoop(g, 1, 0)

\* The driver holds no guard.
NoGuard == [pc |-> "none"]
\* A guard as constructed, with the AddDt values since and the last answer
\* of Violated() ("none" before the first call or after a change).
Guarded(g, added, verdict) ==
  [pc |-> "live", g |-> g, added |-> added, verdict |-> verdict]

\* Initialize() is called.
DoInitialize ==
  /\ guard.pc = "live"
  /\ guard' = Guarded(InitializeGuard(guard.g), <<>>, "none")
  /\ UNCHANGED <<driver, asm, ctor, returned, data, units>>

\* AddDt(dt) is called.
DoAddDt ==
  /\ guard.pc = "live"
  /\ Len(guard.added) < MaxAdds
  /\ \E dt \in -MaxDt .. MaxDt :
       guard' = Guarded(AddDt(guard.g, dt), Append(guard.added, dt), "none")
  /\ UNCHANGED <<driver, asm, ctor, returned, data, units>>

\* Violated() is called.
DoViolated ==
  /\ guard.pc = "live"
  /\ guard' = [guard EXCEPT !.verdict = IF Violated(guard.g) THEN "violated" ELSE "ok"]
  /\ UNCHANGED <<driver, asm, ctor, returned, data, units>>

\* ------------------------------------------- the SolutionData carrier
\* SolutionData objects a caller holds at a time, result-buffer sets ever
\* allocated, and host capsules alive at a time.
MaxObjs == 2
MaxBufs == 2
MaxCapsules == 2

\* The six result arrays of one SolutionData are handled alike by every
\* operation, so one pointer stands for the six.  A pointer is null, the
\* address of buffer set b, or wild: an indeterminate value that was never
\* returned by new[].
nullptr == [k |-> "null", b |-> 0]
Wild == [k |-> "wild", b |-> 0]
Buf(b) == [k |-> "buf", b |-> b]
Variants == {"unique_ptr", "ownership_transferred"}
NoObj == [st |-> "none", ptr |-> nullptr, transferred |-> FALSE]
Obj(p, tr) == [st |-> "live", ptr |-> p, transferred |-> tr]
NoData == [variant |-> "unique_ptr", objs |-> [i \in 1 .. MaxObjs |-> NoObj],
           heap |-> [b \in 1 .. MaxBufs |-> "unused"], capsules |-> <<>>,
           faults |-> {}]

\* delete[] p
Delete(d, p) ==
  IF p = nullptr THEN d
  ELSE IF p = Wild THEN [d EXCEPT !.faults = @ \cup {"wild_free"}]
  ELSE IF d.heap[p.b] = "allocated" THEN [d EXCEPT !.heap[p.b] = "freed"]
  ELSE [d EXCEPT !.faults = @ \cup {"double_free"}]

\* SolutionData(): the unique_ptr members start empty; the raw pointers of the
\* ownership_transferred variant have no initialiser and hold what lies in
\* memory, with ownership_transferred = false.
DefaultConstructed(variant) ==
  IF variant = "unique_ptr" THEN {Obj(nullptr, FALSE)}
  ELSE {Obj(nullptr, FALSE), Obj(Wild, FALSE)}

\* the object frees what it holds: ~unique_ptr, or the destructor and the
\* clean-up of move assignment in the ownership_transferred variant
Cleanup(d, i) ==
  IF d.variant = "unique_ptr" THEN Delete(d, d.objs[i].ptr)
  ELSE IF ~d.objs[i].transferred THEN Delete(d, d.objs[i].ptr)
  ELSE d

\* what a moved-from object is left with
MovedFrom(d, o) ==
  IF d.variant = "unique_ptr" THEN Obj(nullptr, FALSE) ELSE Obj(nullptr, TRUE)

\* SolutionData(SolutionData&&) into the empty slot i
MoveConstruct(d, i, j) ==
  [d EXCEPT !.objs[i] = d.objs[j], !.objs[j] = MovedFrom(d, d.objs[j])]

\* operator=(SolutionData&&): object i gives up what it holds and takes over j
MoveAssign(d, i, j) ==
  LET d1 == Cleanup(d, i)
  IN [d1 EXCEPT !.objs[i] = d.objs[j], !.objs[j] = MovedFrom(d, d.objs[j])]

\* generate_solution (SolutionData.cpp): release() every array into a capsule
\* that deletes it when the host drops the array.
generate_solution(d, i) ==
  [d EXCEPT !.capsules = Append(@, d.objs[i].ptr), !.objs[i].ptr = nullptr]

\* generate_solution of the ownership_transferred variant: the capsules get
\* the raw pointers and the flag is set.
generate_solution_transferred(d, i) ==
  [d EXCEPT !.capsules = Append(@, d.objs[i].ptr), !.objs[i].transferred = TRUE]

\* ~SolutionData
DestroyData(d, i) == [Cleanup(d, i) EXCEPT !.objs[i] = NoObj]

\* the host drops an array: the capsule's destructor runs delete[]
CapsuleFree(d, k) ==
  LET d1 == Delete(d, d.capsules[k])
  IN [d1 EXCEPT !.capsules =
        [n \in 1 .. Len(@) - 1 |-> IF n < k THEN @[n] ELSE @[n + 1]]]

Empty(d) == { i \in 1 .. MaxObjs : d.objs[i].st = "none" }
Live(d) == { i \in 1 .. MaxObjs : d.objs[i].st = "live" }

DataDefault ==
  /\ \E i \in Empty(data), o \in DefaultConstructed(data.variant) :
       data' = [data EXCEPT !.objs[i] = o]
  /\ UNCHANGED <<driver, asm, ctor, guard, returned, units>>

\* solve allocates the arrays with new[] and builds the SolutionData from them
DataFields ==
  /\ \E i \in Empty(data), b \in 1 .. MaxBufs :
       /\ data.heap[b] = "unused"
       /\ \A c \in 1 .. b - 1 : data.heap[c] # "unused"
       /\ data' = [data EXCEPT !.heap[b] = "allocated", !.objs[i] = Obj(Buf(b), FALSE)]
  /\ UNCHANGED <<driver, asm, ctor, guard, returned, units>>

DataMoveConstruct ==
  /\ \E i \in Empty(data), j \in Live(data) : data' = MoveConstruct(data, i, j)
  /\ UNCHANGED <<driver, asm, ctor, guard, returned, units>>

DataMoveAssign ==
  /\ \E i \in Live(data), j \in Live(data) :
       i # j /\ data' = MoveAssign(data, i, j)
  /\ UNCHANGED <<driver, asm, ctor, guard, returned, units>>

DataGenerate ==
  /\ Len(data.capsules) < MaxCapsules
  /\ \E i \in Live(data) :
       data' = IF data.variant = "unique_ptr" THEN generate_solution(data, i)
               ELSE generate_solution_transferred(data, i)
  /\ UNCHANGED <<driver, asm, ctor, guard, returned, units>>

DataDestroy ==
  /\ \E i \in Live(data) : data' = DestroyData(data, i)
  /\ UNCHANGED <<driver, asm, ctor, guard, returned, units>>

DataCollect ==
  /\ \E k \in 1 .. Len(data.capsules) : data' = CapsuleFree(data, k)
  /\ UNCHANGED <<driver, asm, ctor, guard, returned, units>>

\* ------------------------------- output sensitivities (outputs-only mode)
\* Largest numbers of parameters, output expressions, entries of one output
\* expression and states for which SetStepOutputSensitivities is run.
MaxOutParams == 2
MaxExprs == 2
MaxNnz == 2
MaxOutStates == 2

\* An output expression f with nnz_out = m entries: its jacobian dvar_dy as
\* an m x n matrix and its explicit parameter derivative dvar_dp as a P x m
\* matrix (row = parameter, as line 756 reads it); a zero is a structural
\* zero, absent from the sparse result.
OutExpressions(P, n) ==
  UNION { [nnz_out : {m}, dy : [(1 .. m) \X (1 .. n) -> 0 .. 1],
           dp : [(1 .. P) \X (1 .. m) -> 0 .. 1]] : m \in 1 .. MaxNnz }
\* the sensitivity of state c to parameter p handed to the snapshot write
yS_val(p, c) == 2 * p + c
\* The nonzeros of an R x C matrix in compressed-column order, as the
\* expression's result buffer, get_row() and get_col() present them.
Nonzeros(f, R, C) ==
  LET all == [k \in 1 .. R * C |->
                LET r == ((k - 1) % R) + 1
                    c == ((k - 1) \div R) + 1
                IN [row |-> r, col |-> c, val |-> f[<<r, c>>]]]
      present(e) == e.val # 0
  IN SelectSeq(all, present)
\* ReturnVectorLength (lines 132-159): the sum of nnz_out over the outputs
RECURSIVE ReturnVectorLength(_, _)
ReturnVectorLength(fs, k) ==
  IF k = 0 THEN 0 ELSE ReturnVectorLength(fs, k - 1) + fs[k].nnz_out
\* an entry of the row not written by this snapshot, and a written one
OldCell == [set |-> FALSE, v |-> 0]
NewCell(v) == [set |-> TRUE, v |-> v]
\* Lines 752-757: dens_dvar_dp zeroed, then dens_dvar_dp[get_row()[k]] = res[k].
RECURSIVE Densify(_, _, _)
Densify(dens, res_dvar_dp, k) ==
  IF k > Len(res_dvar_dp) THEN dens
  ELSE Densify([dens EXCEPT ![res_dvar_dp[k].row] = res_dvar_dp[k].val],
               res_dvar_dp, k + 1)
\* Lines 763-765: the sum over spk of res_dvar_dy[spk] * yS_val[paramk][col].
RECURSIVE ChainRule(_, _, _)
ChainRule(res_dvar_dy, paramk, spk) ==
  IF spk = 0 THEN 0
  ELSE ChainRule(res_dvar_dy, paramk, spk - 1)
         + res_dvar_dy[spk].val * yS_val(paramk, res_dvar_dy[spk].col)

\* No snapshot write under way.
NoOut == [pc |-> "none"]
\* SetStepOutputSensitivities entered for P parameters, n states and the
\* outputs fs: a row of L entries per parameter, none written yet.
OutEntered(P, n, fs) ==
  [pc |-> "loop", P |-> P, n |-> n, fs |-> fs, dvar_k |-> 0,
   row |-> [p \in 1 .. P |-> [e \in 1 .. ReturnVectorLength(fs, Len(fs)) |-> OldCell]]]

\* Lines 745-767: one pass of the loop over dvar_k: entry dvar_k of every
\* parameter's row is set to the densified explicit derivative and the
\* products over all nonzeros of dvar_dy are added to it.
SetStepOutputSensitivities(o) ==
  LET f == o.fs[o.dvar_k + 1]
      res_dvar_dy == Nonzeros(f.dy, f.nnz_out, o.n)
      res_dvar_dp == Nonzeros(f.dp, o.P, f.nnz_out)
      dens_dvar_dp == Densify([p \in 1 .. o.P |-> 0], res_dvar_dp, 1)
  IN [o EXCEPT !.dvar_k = @ + 1,
               !.row = [p \in 1 .. o.P |->
                          [o.row[p] EXCEPT ![o.dvar_k + 1] =
                             NewCell(dens_dvar_dp[p]
                                       + ChainRule(res_dvar_dy, p, Len(res_dvar_dy)))]]]

\* The loop over the output expressions, one expression per step.
OutExpr ==
  /\ outs.pc = "loop"
  /\ outs.dvar_k < Len(outs.fs)
  /\ outs' = SetStepOutputSensitivities(outs)
  /\ UNCHANGED <<driver, asm, ctor, guard, returned, data, pert, reg>>

\* The loop has run over every expression: the snapshot's row is written.
OutReturn ==
  /\ outs.pc = "loop"
  /\ outs.dvar_k = Len(outs.fs)
  /\ outs' = [outs EXCEPT !.pc = "written"]
  /\ UNCHANGED <<driver, asm, ctor, guard, returned, data, pert, reg>>

\* ------------------------------------------------- perturb_time (common.hpp)
\* Times are fractions with denominator TimeDen between -MaxPerturbT and
\* MaxPerturbT; delta = sqrt(epsilon) of the build's real type is 1 / d for a
\* d up to MaxDeltaInv.  The arithmetic is exact (no rounding).
TimeDen == 2
MaxPerturbT == 4
MaxDeltaInv == 4
Frac(n, d) == [num |-> n, den |-> d]
FracAdd(a, b) == Frac(a.num * b.den + b.num * a.den, a.den * b.den)
FracMul(a, b) == Frac(a.num * b.num, a.den * b.den)
\* a < b, for positive denominators
FracLess(a, b) == a.num * b.den < b.num * a.den

\* perturb_time(t, increasing) (lines 111-117):
\* (1 + delta) * t + delta * sign, sign = 1 if increasing, else -1.
perturb_time(tm, increasing, delta) ==
  LET sign == IF increasing THEN Frac(1, 1) ELSE Frac(-1, 1)
  IN FracAdd(FracMul(FracAdd(Frac(1, 1), delta), tm), FracMul(delta, sign))

\* No call of perturb_time under way.
NoPerturb == [pc |-> "none"]
PerturbCalled(tm, increasing, delta) ==
  [pc |-> "called", t |-> tm, increasing |-> increasing, delta |-> delta]

\* perturb_time returns.
PerturbReturn ==
  /\ pert.pc = "called"
  /\ pert' = [pc |-> "returned", t |-> pert.t, increasing |-> pert.increasing,
              delta |-> pert.delta,
              value |-> perturb_time(pert.t, pert.increasing, pert.delta)]
  /\ UNCHANGED <<driver, asm, ctor, guard, returned, data, outs, reg>>

\* ------------------------------------------ the IdakluJax instance registry
\* Largest number of create_idaklu_jax calls and of dispatches followed.
MaxJax == 3
MaxDispatches == 2

\* a pointer to the IdakluJax object whose index is i
JaxPtr(i) == [k |-> "jax", b |-> i]
\* The process as loaded: universal_count = 0, idaklu_jax_instances empty
\* (lines 8-11); live holds the indices of the objects not yet destroyed,
\* handed the indices create_idaklu_jax returned objects for, dispatched the
\* targets of the custom calls so far.
NoRegistry ==
  [pc |-> "loaded", universal_count |-> 0, idaklu_jax_instances |-> <<>>,
   live |-> {}, handed |-> <<>>, dispatched |-> <<>>]
\* std::map::operator[] (lines 16, 243, 248, 253): the entry of the key,
\* inserted with a null pointer when the map has none.
MapIndex(m, key) ==
  IF key \in DOMAIN m THEN m
  ELSE [i \in DOMAIN m \cup {key} |-> IF i = key THEN nullptr ELSE m[i]]
\* std::map::erase(key)
MapErase(m, key) == [i \in DOMAIN m \ {key} |-> m[i]]

\* create_idaklu_jax (lines 14-18) with the constructor (lines 20-22):
\* index = universal_count++, idaklu_jax_instances[index] = p.
create_idaklu_jax(r) ==
  LET index == r.universal_count
  IN [r EXCEPT !.universal_count = @ + 1,
               !.idaklu_jax_instances = [MapIndex(@, index) EXCEPT ![index] = JaxPtr(index)],
               !.live = @ \cup {index},
               !.handed = Append(@, index)]
\* ~IdakluJax (lines 24-26): idaklu_jax_instances.erase(index).
DestroyIdakluJax(r, index) ==
  [r EXCEPT !.idaklu_jax_instances = MapErase(@, index), !.live = @ \ {index}]
\* wrap_cpu_idaklu_{eval,jvp,vjp}_f64 (lines 241-254):
\* idaklu_jax_instances[index]->cpu_idaklu_*(out_tuple, in).  The call
\* through a null pointer is undefined: the process ends there (faulted) or
\* goes on.
wrap_cpu_idaklu(r, fn, index, faulted) ==
  LET m == MapIndex(r.idaklu_jax_instances, index)
      r1 == [r EXCEPT !.idaklu_jax_instances = m,
                      !.dispatched = Append(@, [fn |-> fn, index |-> index,
                                                target |-> m[index]])]
  IN IF m[index] = nullptr /\ faulted THEN [r1 EXCEPT !.pc = "undefined"] ELSE r1

RegCreate ==
  /\ reg.pc = "loaded"
  /\ reg.universal_count < MaxJax
  /\ reg' = create_idaklu_jax(reg)
  /\ UNCHANGED <<driver, asm, ctor, guard, returned, data, outs, pert>>

RegDestroy ==
  /\ reg.pc = "loaded"
  /\ \E index \in reg.live : reg' = DestroyIdakluJax(reg, index)
  /\ UNCHANGED <<driver, asm, ctor, guard, returned, data, outs, pert>>

RegDispatch ==
  /\ reg.pc = "loaded"
  /\ Len(reg.dispatched) < MaxDispatches
  /\ \E fn \in {"eval", "jvp", "vjp"}, index \in 0 .. MaxJax, faulted \in BOOLEAN :
       reg' = wrap_cpu_idaklu(reg, fn, index, faulted)
  /\ UNCHANGED <<driver, asm, ctor, guard, returned, data, outs, pert>>

\* The driver parts that no specification but their own moves.
UnitsIdle == outs = NoOut /\ pert = NoPerturb /\ reg = NoRegistry

\* ---------------------------------------------------------------- actions
InitWith(masks) ==
  /\ number_of_parameters \in {0, 1}
  /\ sensitivity = (number_of_parameters > 0)
  /\ save_outputs_only \in BOOLEAN
  /\ is_ODE \in BOOLEAN
  \* init_all_y_ic has an effect only when calc_ic holds (lines 407-410)
  /\ solver_opts \in { o \in [calc_ic : BOOLEAN, init_all_y_ic : BOOLEAN] :
                         o.init_all_y_ic => o.calc_ic }
  /\ t = <<>> /\ y = <<>> /\ yS = <<>>
  /\ yy = NoVal /\ yp = NoVal /\ yyS = NoVal
  /\ t_eval = <<>> /\ t_interp = <<>>
  /\ save_adaptive_steps = FALSE /\ save_interp_steps = FALSE
  /\ i_save = 0 /\ i_eval = 0 /\ i_interp = 0
  /\ t_interp_next = 0 /\ t_eval_next = 0 /\ t_val = 0 /\ t_prev = 0 /\ retval = 0
  /\ pc = "idle"
  /\ log = <<>>
  /\ result = NoResult
  /\ returned = <<>>
  /\ asm = AsmIdle
  /\ \E id \in masks : ctor = ConstructedWith(number_of_parameters, id)
  \* the driver's is_ODE is what Initialize computed at construction
  /\ is_ODE = ctor.is_ODE
  /\ guard = NoGuard
  /\ data = NoData
  /\ UnitsIdle
Init == InitWith(DriverMasks)

Store(s) ==
  /\ t' = s.t /\ y' = s.y /\ yS' = s.yS
  /\ yy' = s.yy /\ yp' = s.yp /\ yyS' = s.yyS
  /\ i_save' = s.i_save /\ i_eval' = s.i_eval /\ i_interp' = s.i_interp
  /\ t_interp_next' = s.t_interp_next /\ t_eval_next' = s.t_eval_next
  /\ t_val' = s.t_val /\ t_prev' = s.t_prev /\ retval' = s.retval
  /\ log' = s.log

\* Lines 348-420 of solve: storage, locals, initial vectors, reinitialisation,
\* consistent initialisation, the first snapshot and the first stop time.
PrologueRest(b1, te, ic) ==
  LET t0 == te[1]
      c == [b1 EXCEPT !.yyS = IF sensitivity THEN Val("yS0", t0) ELSE @,
                      !.yy = Val("y0", t0), !.yp = Val("yp0", t0),
                      !.i_eval = 1, !.t_eval_next = te[2]]
      d == ReinitializeIntegrator(c, t0)
      init_type == IF solver_opts.init_all_y_ic THEN IDA_Y_INIT ELSE IDA_YA_YDP_INIT
      e == IF solver_opts.calc_ic
             THEN ConsistentInitialization(d, t0, d.t_eval_next, init_type, ic)
             ELSE d
      f == IF sensitivity THEN IDAGetSensDky(e, e.t_val) ELSE e
      g == SetStep(f, t0)
  IN IDASetStopTime(g, g.t_eval_next)

PrologueFrom(c, te, ti, si, ic) ==
  LET N == Len(te) + Len(ti)
      t0 == te[1]
      a == IF Len(c.t) < N THEN InitializeStorage(c, N) ELSE c
      b == [a EXCEPT !.i_save = 0, !.t_val = t0, !.t_prev = t0, !.i_eval = 0,
                     !.i_interp = 0, !.log = <<>>]
  IN { IF Halted(b1) THEN b1 ELSE PrologueRest(b1, te, ic) :
         b1 \in IF si THEN ReadInterp(b, ti, 0) ELSE {b} }
\* solve entered with the driver as it is
Prologue(te, ti, si, ic) == PrologueFrom(Cur, te, ti, si, ic)

SolveStart ==
  /\ pc = "idle"
  /\ \E te \in EvalSchedules, si \in BOOLEAN, sa \in BOOLEAN, ic \in ICOutcomes :
       \E ti \in InterpSchedules(te) :
         \E s \in Prologue(te, ti, si, ic) :
            /\ t_eval' = te /\ t_interp' = ti
            /\ save_adaptive_steps' = sa /\ save_interp_steps' = si
            /\ Store(s)
            /\ pc' = IF s.ub THEN "undefined" ELSE IF s.thrown THEN "raised"
                     ELSE "stepping"
  /\ UNCHANGED <<members, result, components>>

\* One call of IDASolve and the rest of the loop iteration; when the loop is
\* left, the result is assembled and solve returns.
Step(r, tv, ic) ==
  \E s \in LoopBody(IDASolve(Cur, r, tv), ic) :
     /\ Store(s)
     /\ pc' = IF s.ub THEN "undefined" ELSE IF s.thrown THEN "raised"
              ELSE IF s.brk THEN "done" ELSE "stepping"
     /\ result' = IF s.brk /\ ~Halted(s) THEN Assemble(s) ELSE result
     /\ UNCHANGED <<members, args, components>>

\* IDASolve fails: a negative status; the step was not taken, so the time it
\* reports is the time already reached.
StepFail ==
  /\ pc = "stepping"
  /\ \E r \in FailFlags : Step(r, t_prev, "failed")

\* IDASolve returns the time of the previous return once more.
StepDuplicate ==
  /\ pc = "stepping"
  /\ \E r \in {IDA_SUCCESS, IDA_TSTOP_RETURN, IDA_ROOT_RETURN} :
       Step(r, t_prev, "failed")

\* IDASolve advances: a later time, not beyond the stop time set; the stop
\* status exactly when it reaches the stop time, unless a root is reported.
StepAdvance ==
  /\ pc = "stepping"
  /\ \E tv \in Times, ic \in ICOutcomes :
       /\ t_prev < tv /\ tv <= t_eval_next
       /\ \E r \in {IF tv = t_eval_next THEN IDA_TSTOP_RETURN ELSE IDA_SUCCESS,
                    IDA_ROOT_RETURN} :
            Step(r, tv, ic)

Next == SolveStart \/ StepFail \/ StepDuplicate \/ StepAdvance

Spec == Init /\ [][Next]_vars

\* ------------------------------------------------- reading the call log
Running == pc \in {"stepping", "done"}
Done == pc = "done"
LogIdx == 1 .. Len(log)
StepIdx == { i \in LogIdx : log[i].op = "IDASolve" }
WriteIdx == { i \in LogIdx : log[i].op = "SetStep" }
\* the time IDASolve had returned before log entry i (t_eval[0] when none)
PrevReturn(i) ==
  LET before == { j \in StepIdx : j < i }
  IN IF before = {} THEN t_eval[1]
     ELSE log[CHOOSE j \in before : \A k \in before : k <= j].t
\* IDASolve calls that returned a non-negative status and a new time
GoodIdx == { i \in StepIdx : log[i].r >= 0 /\ log[i].t # PrevReturn(i) }
\* the log entries of the loop iteration that IDASolve call i started
IterIdx(i) == { j \in LogIdx : j > i /\ \A k \in StepIdx : k <= i \/ k > j }
Recorded == { t[k] : k \in 1 .. i_save }

\* ------------------------------------------------------------------ claims

\* C1: on every return of solve (DONE or FAIL) the recorded times are
\* non-decreasing: t[i] <= t[i+1], for every save_adaptive / save_interp.
C1_MonotonicTime ==
  Done => \A i \in 1 .. Len(result.t) - 1 : result.t[i] <= result.t[i + 1]

\* C2: within one result no time value is recorded twice.
C2_NoTimeTwice ==
  Done => \A i, j \in 1 .. Len(result.t) : i # j => result.t[i] # result.t[j]

\* C3: the first snapshot is written before the first IDASolve call, with
\* t[0] = t_eval[0]; in full-state mode with calc_ic = false, y[0] is y0.
C3_InitialSnapshot ==
  Running =>
    /\ \E w \in WriteIdx :
         /\ log[w].r = 0 /\ log[w].t = t_eval[1]
         /\ \A i \in StepIdx : w < i
    /\ i_save >= 1 /\ t[1] = t_eval[1]
    /\ (~save_outputs_only /\ ~solver_opts.calc_ic)
          => y[1] = FullRow(Val("y0", t_eval[1]))
    /\ Done => /\ result.t[1] = t_eval[1]
               /\ (~save_outputs_only /\ ~solver_opts.calc_ic)
                     => result.y[1] = FullRow(Val("y0", t_eval[1]))

\* a full-state solve without calc_ic that has stepped and returned
C3_Witness ==
  /\ Done /\ ~save_outputs_only /\ ~solver_opts.calc_ic
  /\ GoodIdx # {}
  /\ result.y[1] = FullRow(Val("y0", t_eval[1]))
  /\ result.t[1] = t_eval[1]

\* C4: every t_eval point at which IDASolve returned the stop status is
\* recorded at exactly that time; a run that ends with neither root nor
\* failure holds every element of t_eval.
C4_StopsRecorded ==
  Running =>
    /\ \A i \in StepIdx :
         (log[i].r = IDA_TSTOP_RETURN /\ \E k \in 1 .. Len(t_eval) : t_eval[k] = log[i].t)
            => log[i].t \in Recorded
    /\ (Done /\ result.flag >= 0 /\ result.flag # IDA_ROOT_RETURN)
          => \A k \in 1 .. Len(t_eval) :
               \E n \in 1 .. Len(result.t) : result.t[n] = t_eval[k]

\* a run over three stop times that reached the last one
C4_Witness ==
  /\ Done /\ Len(t_eval) = 3 /\ result.flag = IDA_TSTOP_RETURN
  /\ \A k \in 1 .. 3 : \E n \in 1 .. Len(result.t) : result.t[n] = t_eval[k]
  /\ Cardinality({ i \in StepIdx : log[i].r = IDA_TSTOP_RETURN }) = 2

\* the snapshot times in the order SetStep wrote them
RECURSIVE WriteTimes(_)
WriteTimes(n) ==
  IF n = 0 THEN <<>>
  ELSE IF log[n].op = "SetStep" THEN Append(WriteTimes(n - 1), log[n].t)
  ELSE WriteTimes(n - 1)
Last(S) == CHOOSE j \in S : \A k \in S : k <= j
First(S) == CHOOSE j \in S : \A k \in S : j <= k
\* the stop time in force at log entry i
StopSet(i) == log[Last({ j \in LogIdx : j < i /\ log[j].op = "IDASetStopTime" })].t

C6_EvalOnly ==
  (Done /\ ~save_adaptive_steps /\ ~save_interp_steps
        /\ result.flag >= 0 /\ result.flag # IDA_ROOT_RETURN) =>
    /\ result.number_of_timesteps = Len(t_eval)
    /\ result.t = t_eval

\* such a solve with an internal step between the stops
C6_Witness ==
  /\ Done /\ ~save_adaptive_steps /\ ~save_interp_steps
  /\ result.flag = IDA_TSTOP_RETURN
  /\ \E i \in GoodIdx : log[i].r = IDA_SUCCESS
  /\ result.t = t_eval

\* C7: with save_adaptive = true and save_interp = false, the number of
\* snapshots is 1 plus the number of IDASolve returns with a non-negative
\* status and a new time; each such step yields exactly one snapshot; the
\* snapshot of a plain-success step lies strictly after the previous snapshot
\* and strictly before the stop time in force.
C7_AdaptiveCount ==
  (Running /\ save_adaptive_steps /\ ~save_interp_steps) =>
    /\ i_save = 1 + Cardinality(GoodIdx)
    /\ Cardinality(WriteIdx) = 1 + Cardinality(GoodIdx)
    /\ Done => result.number_of_timesteps = 1 + Cardinality(GoodIdx)
    /\ \A i \in StepIdx :
         Cardinality(IterIdx(i) \cap WriteIdx) = IF i \in GoodIdx THEN 1 ELSE 0
    /\ \A i \in GoodIdx :
         log[i].r = IDA_SUCCESS =>
           \A w \in IterIdx(i) \cap WriteIdx :
             /\ log[w].t = log[i].t
             /\ t[log[w].r + 1] = log[w].t
             /\ t[log[w].r] < log[w].t
             /\ log[w].t < StopSet(w)

\* an adaptive run with a plain-success step followed by a stop or a root
C7_Witness ==
  /\ Done /\ save_adaptive_steps /\ ~save_interp_steps
  /\ result.flag \in {IDA_TSTOP_RETURN, IDA_ROOT_RETURN}
  /\ \E i \in GoodIdx : log[i].r = IDA_SUCCESS
  /\ result.number_of_timesteps = 3

\* the new log entries of a step
NewLog == SubSeq(log', Len(log) + 1, Len(log'))
\* the step in which IDASolve returns the root status with a new time (and
\* no access outside a vector happens)
RootStep ==
  /\ pc = "stepping" /\ pc' \notin {"undefined", "raised"} /\ Len(log') > Len(log)
  /\ log'[Len(log) + 1].op = "IDASolve"
  /\ log'[Len(log) + 1].r = IDA_ROOT_RETURN
  /\ log'[Len(log) + 1].t # t_prev

C11_FinalFlagSuccess ==
  (Done /\ result.flag >= 0 /\ t_val = t_eval[Len(t_eval)]) =>
    /\ result.flag = IDA_SUCCESS
    /\ result.flag # IDA_TSTOP_RETURN

\* C11 (amended): the flag of a returned solve is the status of its last
\* IDASolve call unchanged (ERR_FAIL on a repeated time); a solve that reaches
\* t_eval[last] without failure returns the stop status (the root status when
\* a root is reported there), never SUCCESS; a stop status at an earlier
\* t_eval point does not end the solve.
C11_FinalFlagStop ==
  /\ Done =>
       /\ result.flag # IDA_SUCCESS
       /\ result.flag >= 0 =>
            /\ result.flag = log[Last(StepIdx)].r
            /\ result.flag \in {IDA_TSTOP_RETURN, IDA_ROOT_RETURN}
            /\ result.flag = IDA_TSTOP_RETURN <=> t_val = t_eval[Len(t_eval)]
                                                  /\ retval = IDA_TSTOP_RETURN
  /\ \A i \in GoodIdx :
       (log[i].r = IDA_TSTOP_RETURN /\ log[i].t < t_eval[Len(t_eval)] /\ Running)
          => (pc = "stepping" \/ \E j \in StepIdx : j > i)

\* a completed solve over three stops, the last step ending on t_eval[last]
C11_Witness ==
  /\ Done /\ Len(t_eval) = 3 /\ t_val = t_eval[3]
  /\ result.flag = IDA_TSTOP_RETURN
  /\ Cardinality({ i \in GoodIdx : log[i].r = IDA_TSTOP_RETURN }) = 2
  /\ result.t[Len(result.t)] = t_eval[3]

\* ------------------------------------------- the parts on their own
\* The driver between two solves, in one configuration; the specifications
\* of the parts leave it there.
DriverParked ==
  /\ number_of_parameters = 0 /\ sensitivity = FALSE
  /\ save_outputs_only = FALSE /\ is_ODE = FALSE
  /\ solver_opts = [calc_ic |-> FALSE, init_all_y_ic |-> FALSE]
  /\ t = <<>> /\ y = <<>> /\ yS = <<>>
  /\ yy = NoVal /\ yp = NoVal /\ yyS = NoVal
  /\ t_eval = <<>> /\ t_interp = <<>>
  /\ save_adaptive_steps = FALSE /\ save_interp_steps = FALSE
  /\ i_save = 0 /\ i_eval = 0 /\ i_interp = 0
  /\ t_interp_next = 0 /\ t_eval_next = 0 /\ t_val = 0 /\ t_prev = 0 /\ retval = 0
  /\ pc = "idle"
  /\ log = <<>>
  /\ result = NoResult
  /\ returned = <<>>

\* The copy loop of the sensitivity tensor for every mode and every size of
\* the recorder within the bounds.
InitSens ==
  /\ DriverParked
  /\ ctor = Constructed(0)
  /\ guard = NoGuard
  /\ data = NoData
  /\ UnitsIdle
  /\ asm \in { AsmReady(soo, P, N, L) :
                 soo \in BOOLEAN, P \in 0 .. MaxParams, N \in 1 .. MaxSnaps,
                 L \in 1 .. MaxComps }
NextSens == AsmStart \/ AsmCopy \/ AsmReturn
SpecSens == InitSens /\ [][NextSens]_vars

\* row-major position of index (a, b, c) in a buffer of the given shape
Flat(shape, a, b, c) == (a * shape[2] + b) * shape[3] + c

\* C12: the returned sensitivity tensor has the axes (n_params, N, n_states)
\* in full-state mode and (N, L, n_params) in outputs-only mode, and its
\* element at (p, i, j), respectively (i, j, p), in row-major order is the
\* recorder's sensitivity of component j to parameter p at snapshot i.
C12_SensLayout ==
  asm.pc = "returned" =>
    LET P == asm.number_of_parameters
        N == asm.number_of_timesteps
        L == asm.length_of_return_vector
    IN /\ asm.shape = IF asm.save_outputs_only THEN <<N, L, P>> ELSE <<P, N, L>>
       /\ Len(asm.yS_return) = P * N * L
       /\ ~asm.ub
       /\ \A p \in 0 .. P - 1, i \in 0 .. N - 1, j \in 0 .. L - 1 :
            asm.yS_return[1 + IF asm.save_outputs_only
                                THEN Flat(asm.shape, i, j, p)
                                ELSE Flat(asm.shape, p, i, j)] = SensCell(i, p, j)

\* an outputs-only tensor of 3 snapshots, 2 outputs and 2 parameters, with
\* the element (2, 0, 1) at flat position 9
C12_Witness ==
  /\ asm.pc = "returned" /\ asm.save_outputs_only
  /\ asm.shape = <<3, 2, 2>>
  /\ Len(asm.yS_return) = 12
  /\ asm.yS_return[10] = SensCell(2, 1, 0)

\* the run ended on a stop or a root
EndedOnStopOrRoot == Done /\ result.flag \in {IDA_TSTOP_RETURN, IDA_ROOT_RETURN}
\* dense-output calls of the last loop iteration for a time before t_val
LastCatchUps ==
  { j \in IterIdx(Last(StepIdx)) : log[j].op = "IDAGetDky" /\ log[j].t < t_val }

\* C13: in outputs-only mode, when the run ends on a stop or a root, yterm is
\* the raw state at the time of the final snapshot (the state the last row's
\* outputs were computed from), also when interp points were caught up in
\* the last step; in full-state mode yterm is empty.
C13_Yterm ==
  Done =>
    /\ ~save_outputs_only => result.yterm = <<>>
    /\ (save_outputs_only /\ EndedOnStopOrRoot) =>
         LET n == Len(result.t)
         IN /\ Len(result.yterm) = 1
            /\ result.yterm[1].at = result.t[n]
            /\ result.t[n] = t_val
            /\ result.yterm[1].src \in {"step", "dky"}
            /\ result.y[n] = OutRow(result.t[n], result.yterm[1])
            /\ LastCatchUps # {} => result.yterm[1] = Val("dky", t_val)

\* an outputs-only run that ended on a stop whose last step caught up an
\* interp point before the stop time
C13_Witness ==
  /\ EndedOnStopOrRoot /\ save_outputs_only /\ save_interp_steps
  /\ result.flag = IDA_TSTOP_RETURN
  /\ LastCatchUps # {}
  /\ result.yterm = <<Val("dky", t_val)>>
  /\ result.t[Len(result.t)] = t_val

\* the back-end's sensitivity calls
SensCalls == {"IDASensInit", "IDASensEEtolerances", "IDASensReInit", "IDAGetSensDky"}
\* entry k of a sequence of names
CallsOf(seq) == { seq[k] : k \in 1 .. Len(seq) }

\* C14: with number_of_parameters = 0 neither Initialize nor solve makes a
\* sensitivity call to the back-end, no sensitivity row of the recorder and
\* no working sensitivity vector is written, and the returned sensitivity
\* tensor is empty.
C14_NoSensitivityCalls ==
  number_of_parameters = 0 =>
    /\ CallsOf(ctor.calls) \cap SensCalls = {}
    /\ \A i \in LogIdx : log[i].op \notin SensCalls
    /\ \A k \in 1 .. Len(yS) : yS[k] = ZeroRow
    /\ yyS = NoVal
    /\ Done => result.yS = <<>>

\* a run without parameters that reinitialised at an intermediate stop and
\* returned three snapshots
C14_Witness ==
  /\ Done /\ number_of_parameters = 0
  /\ Cardinality({ i \in LogIdx : log[i].op = "IDAReInit" }) >= 2
  /\ Len(result.t) >= 3 /\ result.yS = <<>>
  /\ "IDASetLinearSolver" \in CallsOf(ctor.calls)

\* the dense-output calls of the log
DkyIdx == { i \in LogIdx : log[i].op \in {"IDAGetDky", "IDAGetSensDky"} }
\* the step window at log entry i: from the return before the most recent
\* IDASolve return to that return; [t_eval[0], t_eval[0]] before the first
WindowLow(i) ==
  LET before == { j \in StepIdx : j < i }
  IN IF before = {} THEN t_eval[1] ELSE PrevReturn(Last(before))
WindowHigh(i) == PrevReturn(i)

\* C15: every IDAGetDky and IDAGetSensDky call of solve has its time inside
\* [t_prev, t_val], the window of the last step.
C15_DkyInWindow ==
  pc # "idle" =>
    \A i \in DkyIdx : WindowLow(i) <= log[i].t /\ log[i].t <= WindowHigh(i)

\* the same for the runs in which every read of t_interp is inside it
DkyInWindowDefinedRuns ==
  (pc # "idle" /\ (save_interp_steps => t_interp # <<>>)) =>
    \A i \in DkyIdx : WindowLow(i) <= log[i].t /\ log[i].t <= WindowHigh(i)

\* A NoProgressGuard of every size and threshold within the bounds, and every
\* sequence of calls on it.
InitGuard ==
  /\ DriverParked
  /\ asm = AsmIdle
  /\ ctor = Constructed(0)
  /\ data = NoData
  /\ UnitsIdle
  /\ guard \in { Guarded(NoProgressGuard(ws, th), <<>>, "none") :
                   ws \in 0 .. MaxWindow, th \in -MaxThreshold .. MaxThreshold }
NextGuard == DoInitialize \/ DoAddDt \/ DoViolated
SpecGuard == InitGuard /\ [][NextGuard]_vars

RECURSIVE SumTo(_, _)
\* w[1] + ... + w[k]
SumTo(w, k) == IF k = 0 THEN 0 ELSE SumTo(w, k - 1) + w[k]
\* Violated() was called on an enabled guard and nothing changed since
Answered == guard.pc = "live" /\ ~Disabled(guard.g) /\ guard.verdict # "none"
\* the window the calls so far should have left: slot k holds the latest
\* value added at a position congruent to k, the threshold if there is none
ExpectedWindow ==
  LET ws == guard.g.window_size_
      at(k) == { n \in 1 .. Len(guard.added) : (n - 1) % ws = k - 1 }
  IN [k \in 1 .. ws |-> IF at(k) = {} THEN guard.g.threshold_sec_
                        ELSE guard.added[Last(at(k))]]

\* C16 (as stated): for an enabled guard and any dt values, Violated() is true
\* iff the sum of the values in the window is below threshold_sec.
C16_ViolatedIffSum ==
  Answered =>
    (guard.verdict = "violated"
       <=> SumTo(guard.g.dt_window_, guard.g.window_size_) < guard.g.threshold_sec_)

\* C16 (amended): the window holds the last window_size values added (the
\* threshold where fewer were added); Violated() is true iff every running
\* sum over the window in storage order is below threshold_sec, which, when no
\* value in the window is negative, is iff the sum of the window is below it.
C16_ViolatedIffRunningSums ==
  Answered =>
    LET w == guard.g.dt_window_
        ws == guard.g.window_size_
        th == guard.g.threshold_sec_
    IN /\ w = ExpectedWindow
       /\ guard.verdict = "violated" <=> \A k \in 1 .. ws : SumTo(w, k) < th
       /\ (\A k \in 1 .. ws : w[k] >= 0)
             => (guard.verdict = "violated" <=> SumTo(w, ws) < th)

\* a window of three wrapped around once, all entries non-negative, with a
\* sum below the threshold: the guard answers violated
C16_Witness ==
  /\ Answered /\ guard.g.window_size_ = 3 /\ guard.g.threshold_sec_ = 2
  /\ guard.added = <<1, 0, 0, 1>>
  /\ guard.g.dt_window_ = <<1, 0, 0>>
  /\ guard.verdict = "violated"

\* fewer AddDt calls than the window has slots since construction or Initialize
StillPrefilled == Answered /\ Len(guard.added) < guard.g.window_size_

\* C17 (as stated): an enabled guard answers not violated right after
\* construction or Initialize() and as long as fewer than window_size AddDt
\* calls were made since.
C17_NotArmedEarly == StillPrefilled => guard.verdict = "ok"

\* C17 (amended): the same, as long as fewer than window_size AddDt calls,
\* all with dt >= 0, were made since; a threshold entry is then still in the
\* window.
C17_NotArmedEarlyNonNegative ==
  (StillPrefilled /\ \A n \in 1 .. Len(guard.added) : guard.added[n] >= 0) =>
    /\ guard.verdict = "ok"
    /\ \E k \in 1 .. guard.g.window_size_ :
         guard.g.dt_window_[k] = guard.g.threshold_sec_
    /\ guard.added = <<>> =>
         guard.g.dt_window_ = Fill(guard.g.window_size_, guard.g.threshold_sec_)

\* a window of three with two zero steps added: still not violated
C17_Witness ==
  /\ StillPrefilled /\ guard.g.window_size_ = 3 /\ guard.g.threshold_sec_ = 2
  /\ guard.added = <<0, 0>>
  /\ guard.g.dt_window_ = <<0, 0, 2>>
  /\ guard.verdict = "ok"

\* the guard g after AddDt of the step size of every IDASolve return up to
\* log entry i that neither failed nor repeated a time
RECURSIVE FedUpTo(_, _)
FedUpTo(g, i) ==
  IF i = 0 THEN g
  ELSE LET p == FedUpTo(g, i - 1)
       IN IF i \in GoodIdx THEN AddDt(p, log[i].t - PrevReturn(i)) ELSE p

\* C18: after each successful IDASolve the driver feeds the step to the
\* NoProgressGuard and consults it; when an armed guard is violated the
\* driver takes no further step and returns with the stall status (unless
\* that step itself ended the run at a root or at the last stop time).
C18_GuardStops ==
  Running =>
    \A ws \in 1 .. MaxWindow, th \in 1 .. MaxThreshold :
      \A i \in GoodIdx :
        Violated(FedUpTo(NoProgressGuard(ws, th), i)) =>
          /\ \A j \in StepIdx : j <= i
          /\ (Done /\ log[i].r # IDA_ROOT_RETURN /\ log[i].t < t_eval[Len(t_eval)])
                => result.flag = IDA_ERR_FAIL

\* Every construction request within the names and sizes above.
InitCtor ==
  /\ DriverParked
  /\ asm = AsmIdle
  /\ guard = NoGuard
  /\ data = NoData
  /\ UnitsIdle
  /\ ctor \in { CtorRequest(ls, jac, prec, P, made) :
                  ls \in LinearSolverNames, jac \in JacobianNames,
                  prec \in Preconditioners, P \in 0 .. MaxParams, made \in BOOLEAN }
NextCtor == CtorCreate \/ CtorChild \/ CtorReturn \/ CtorSolve \/ CtorDestroy
SpecCtor == InitCtor /\ [][NextCtor]_vars

\* the request names an unknown linear solver or jacobian mode, or the
\* linear solver is unset when Initialize runs
BadSetup ==
  \/ ctor.linear_solver \notin LinearSolvers
  \/ ctor.jacobian \notin Jacobians
  \/ ~ctor.ls_made

\* C19: an unknown linear-solver name, an unsupported jacobian mode and a
\* linear solver unset at Initialize each end the construction with
\* invalid_argument: no driver is handed to the caller and no solve runs;
\* any other request is not refused.
C19_ConfigErrorsRaised ==
  /\ BadSetup =>
       /\ ctor.pc \in {"requested", "base", "raised"}
       /\ ~ctor.handed /\ ctor.solves = 0 /\ "solve" \notin CallsOf(ctor.calls)
       /\ ctor.pc = "raised" => ctor.error = "invalid_argument"
  /\ (ctor.pc = "raised" /\ ctor.linear_solver \notin LinearSolvers) => ctor.calls = <<>>
  /\ ctor.pc = "raised" => BadSetup
  /\ ctor.solves > 0 => ctor.handed

\* a known linear solver with an unknown jacobian mode: raised in the base
\* constructor, after the context and the integrator memory were created
C19_Witness ==
  /\ ctor.pc = "raised" /\ ctor.error = "invalid_argument"
  /\ ctor.linear_solver = "SUNLinSol_KLU" /\ ctor.jacobian = "other"
  /\ ctor.calls = <<"SUNContext_Create", "IDACreate">>
  /\ ~ctor.handed

\* ------------------------------------------- solve on any schedule
\* Longest t_eval and t_interp of a request that need not be valid.
MaxAnyEvals == 2
MaxAnyInterps == 1
AnyEvalSchedules == UNION { [1 .. n -> Times] : n \in 1 .. MaxAnyEvals }
AnyInterpSchedules == UNION { [1 .. n -> Times] : n \in 0 .. MaxAnyInterps }
\* the schedules of the data model
ValidSchedule(te, ti) ==
  /\ Len(te) >= 2 /\ StrictlyIncreasing(te)
  /\ \A i \in 1 .. Len(ti) : te[1] <= ti[i] /\ ti[i] <= te[Len(te)]

\* Lines 348-420 for a t_eval of any length: with a single point, line 402
\* reads t_eval[1] outside the vector, which faults or yields what lies there.
PrologueAny(te, ti, si, ic) ==
  IF Len(te) >= 2 THEN Prologue(te, ti, si, ic)
  ELSE LET N == Len(te) + Len(ti)
           a == IF Len(t) < N THEN InitializeStorage(Cur, N) ELSE Cur
           b == [a EXCEPT !.i_save = 0, !.t_val = te[1], !.t_prev = te[1],
                          !.i_eval = 0, !.i_interp = 0, !.log = <<>>]
       IN UNION { IF Halted(b1) THEN {b1}
                  ELSE {[b1 EXCEPT !.i_eval = 1, !.ub = TRUE]}
                         \cup { PrologueRest(b1, <<te[1], g>>, ic) : g \in JunkTimes } :
                  b1 \in IF si THEN ReadInterp(b, ti, 0) ELSE {b} }

\* solve is called with a schedule that was not checked by anyone.
SolveStartAny ==
  /\ pc = "idle"
  /\ \E te \in AnyEvalSchedules, ti \in AnyInterpSchedules,
        si \in BOOLEAN, sa \in BOOLEAN, ic \in ICOutcomes :
       \E s \in PrologueAny(te, ti, si, ic) :
          /\ t_eval' = te /\ t_interp' = ti
          /\ save_adaptive_steps' = sa /\ save_interp_steps' = si
          /\ Store(s)
          /\ pc' = IF s.ub THEN "undefined" ELSE IF s.thrown THEN "raised"
                   ELSE "stepping"
  /\ UNCHANGED <<members, result, components>>

NextAny == SolveStartAny \/ StepFail \/ StepDuplicate \/ StepAdvance
SpecAny == Init /\ [][NextAny]_vars

\* C20: a solve request with fewer than 2 t_eval points, a t_eval that is not
\* strictly increasing or a t_interp point outside [t_eval[0], t_eval[last]]
\* is rejected with an error before the first IDASolve call and yields no
\* result.
C20_InvalidScheduleRejected ==
  (pc # "idle" /\ ~ValidSchedule(t_eval, t_interp)) =>
    /\ pc = "raised"
    /\ StepIdx = {}
    /\ result = NoResult

\* C21: when construction or Initialize fails part-way, every back-end
\* resource acquired so far is released: no partially initialised back-end
\* stays alive.
C21_NoPartialBackend == ctor.pc = "raised" => ctor.alive = {}

\* --------------------------------------- ownership of the result buffers
\* Every sequence of constructions, moves, generate_solution calls,
\* destructions and capsule releases, for either variant of the carrier.
InitData ==
  /\ DriverParked
  /\ asm = AsmIdle
  /\ ctor = Constructed(0)
  /\ guard = NoGuard
  /\ data \in { [NoData EXCEPT !.variant = v] : v \in Variants }
  /\ UnitsIdle
NextData ==
  \/ DataDefault \/ DataFields \/ DataMoveConstruct \/ DataMoveAssign
  \/ DataGenerate \/ DataDestroy \/ DataCollect
SpecData == InitData /\ [][NextData]_vars

\* the SolutionData objects and capsules that will free buffer set b
Owners(b) ==
  Cardinality({ i \in Live(data) :
                  /\ data.objs[i].ptr = Buf(b)
                  /\ (data.variant = "ownership_transferred"
                        => ~data.objs[i].transferred) })
  + Cardinality({ k \in 1 .. Len(data.capsules) : data.capsules[k] = Buf(b) })
SingleOwner ==
  /\ data.faults = {}
  /\ \A b \in 1 .. MaxBufs :
       /\ data.heap[b] = "allocated" => Owners(b) = 1
       /\ data.heap[b] = "freed" => Owners(b) = 0

\* C24: across every sequence of default, field and move construction, move
\* assignment, generate_solution and destruction of SolutionData objects each
\* result buffer has exactly one owner (a SolutionData or a capsule) and is
\* freed exactly once: no double free, no free of a pointer that was never
\* allocated, no leak.
C24_SingleOwner == SingleOwner

\* the same for the unique_ptr variant alone
SingleOwnerUniquePtr == data.variant = "unique_ptr" => SingleOwner

\* ------------------------------------------- several solves on one driver
\* Largest time, longest t_eval and t_interp of the requests, and the number
\* of earlier solves whose results the caller keeps.
MaxReT == 3
MaxReEvals == 2
MaxReInterps == 1
MaxEarlier == 1
ReEvalSchedules ==
  { s \in UNION { [1 .. n -> 1 .. MaxReT] : n \in 2 .. MaxReEvals } :
      StrictlyIncreasing(s) }
ReInterpSchedules(te) ==
  { s \in UNION { [1 .. n -> 1 .. MaxReT] : n \in 0 .. MaxReInterps } :
      /\ StrictlyIncreasing(s)
      /\ \A i \in 1 .. Len(s) : te[1] <= s[i] /\ s[i] <= te[Len(te)] }

SolveStartRe ==
  /\ pc = "idle"
  /\ \E te \in ReEvalSchedules, si \in BOOLEAN, sa \in BOOLEAN, ic \in ICOutcomes :
       \E ti \in ReInterpSchedules(te) :
         \E s \in Prologue(te, ti, si, ic) :
            /\ t_eval' = te /\ t_interp' = ti
            /\ save_adaptive_steps' = sa /\ save_interp_steps' = si
            /\ Store(s)
            /\ pc' = IF s.ub THEN "undefined" ELSE IF s.thrown THEN "raised"
                     ELSE "stepping"
  /\ UNCHANGED <<members, result, components>>

\* solve has returned: its arguments and locals are gone, the caller keeps
\* the result, and the driver keeps its buffers and working vectors.
SolveReturn ==
  /\ pc = "done"
  /\ Len(returned) < MaxEarlier
  /\ returned' = Append(returned, result)
  /\ result' = NoResult
  /\ t_eval' = <<>> /\ t_interp' = <<>>
  /\ save_adaptive_steps' = FALSE /\ save_interp_steps' = FALSE
  /\ i_save' = 0 /\ i_eval' = 0 /\ i_interp' = 0
  /\ t_interp_next' = 0 /\ t_eval_next' = 0 /\ t_val' = 0 /\ t_prev' = 0
  /\ retval' = 0
  /\ log' = <<>>
  /\ pc' = "idle"
  /\ UNCHANGED <<members, buffers, working, asm, ctor, guard, data, units>>

\* The driver is destroyed: its recorder vectors and its back-end objects go.
DriverDestroy ==
  /\ pc \in {"idle", "done"}
  /\ returned # <<>>
  /\ t' = <<>> /\ y' = <<>> /\ yS' = <<>>
  /\ yy' = NoVal /\ yp' = NoVal /\ yyS' = NoVal
  /\ ctor' = [Destructor(ctor) EXCEPT !.pc = "destroyed"]
  /\ pc' = "destroyed"
  /\ UNCHANGED <<members, args, locals, log, result, asm, guard, returned, data, units>>

NextRe ==
  \/ SolveStartRe \/ StepFail \/ StepDuplicate \/ StepAdvance
  \/ SolveReturn \/ DriverDestroy
\* Consistent initialisation touches no recorder buffer: the drivers solved
\* on repeatedly are the DAE drivers with calc_ic off.
InitRe == Init /\ ~is_ODE /\ ~solver_opts.calc_ic
SpecRe == InitRe /\ [][NextRe]_vars

\* What the back-end did in the current solve, read from the call log: the
\* k-th IDASolve return, and whether IDACalcIC failed among given entries.
NthStep(k) == CHOOSE i \in StepIdx : Cardinality({ j \in StepIdx : j <= i }) = k
IcAmong(idx) ==
  IF \E j \in idx : log[j].op = "IDACalcIC" /\ log[j].r = IDA_CONV_FAIL
    THEN "failed" ELSE "corrected"
BeforeSteps == { j \in LogIdx : \A k \in StepIdx : j < k }

\* a driver on which solve never ran
FreshCur ==
  [Cur EXCEPT !.t = <<>>, !.y = <<>>, !.yS = <<>>,
              !.yy = NoVal, !.yp = NoVal, !.yyS = NoVal]

\* The loop of solve run from the states S through the IDASolve returns
\* k, k + 1, ... of the log.
RECURSIVE Replay(_, _)
Replay(S, k) ==
  IF k > Cardinality(StepIdx) THEN S
  ELSE LET i == NthStep(k)
       IN Replay(UNION { LoopBody(IDASolve(s, log[i].r, log[i].t), IcAmong(IterIdx(i))) :
                           s \in { x \in S : ~Halted(x) /\ ~x.brk } },
                 k + 1)

\* the results a fresh driver returns for the arguments of the current solve
\* when the back-end behaves as it did in the current solve
FreshResults ==
  { Assemble(s) :
      s \in { x \in Replay(PrologueFrom(FreshCur, t_eval, t_interp, save_interp_steps,
                                        IcAmong(BeforeSteps)), 1) :
                x.brk /\ ~Halted(x) } }

\* C22: a solve on a driver that has solved before returns what the same
\* call returns on a fresh driver when the back-end answers alike: flag, N, t,
\* y, S and yterm depend on no buffer content, buffer length or cursor left
\* behind by an earlier solve, whatever its schedule and save_adaptive.
C22_Repeatable == (pc = "done" /\ returned # <<>>) => result \in FreshResults

\* the same for the runs in which every read of t_interp is inside it
RepeatableDefinedRuns ==
  (pc = "done" /\ returned # <<>> /\ (save_interp_steps => t_interp # <<>>))
    => result \in FreshResults

\* What a caller reads through the arrays of result r: the arrays themselves
\* when the result owns them, the recorder's rows when they are views.
Upto(seq, n) == SubSeq(seq, 1, IF n <= Len(seq) THEN n ELSE Len(seq))
Arrays(r) ==
  IF r.store = "own" THEN [t |-> r.t, y |-> r.y, yS |-> r.yS, yterm |-> r.yterm]
  ELSE [t |-> Upto(t, r.number_of_timesteps), y |-> Upto(y, r.number_of_timesteps),
        yS |-> IF number_of_parameters > 0 THEN Upto(yS, r.number_of_timesteps)
               ELSE <<>>,
        yterm |-> IF save_outputs_only THEN <<yy>> ELSE <<>>]
Held == [k \in 1 .. Len(returned) |-> Arrays(returned[k])]
KeepsEarlierResults ==
  /\ Len(returned') >= Len(returned)
  /\ \A k \in 1 .. Len(returned) : Held'[k] = Held[k]
  /\ (pc = "done" /\ pc' = "destroyed") => Arrays(result)' = Arrays(result)

OutsideIdx == { i \in LogIdx : log[i].op = "OutOfBounds" }
CursorAndBounds ==
  /\ pc \in {"stepping", "done", "raised", "undefined"} =>
       /\ i_save = Cardinality(WriteIdx)
       /\ \A w \in WriteIdx :
            /\ log[w].r = Cardinality({ v \in WriteIdx : v < w })
            /\ log[w].r < Len(t) /\ log[w].r < Len(y)
            /\ sensitivity => log[w].r < Len(yS)
       /\ OutsideIdx = {}
  /\ pc = "done" => result.number_of_timesteps = i_save

\* C30: at every point of a solve i_save is the number of snapshots written
\* so far in this solve, every write lands at an index below the current
\* length of t, y and (with sensitivities) yS, in the first solve and in every
\* later solve on the driver, and the returned number_of_timesteps is the
\* final i_save.
C30_CursorAndBounds == CursorAndBounds

\* the same for the runs in which every read of t_interp is inside it
CursorAndBoundsDefinedRuns == (save_interp_steps => t_interp # <<>>) => CursorAndBounds

\* ------------------------------------------- stops and consistent initialisation
\* the IDASolve returns that reached a stop time other than the last
NonFinalStops ==
  { i \in GoodIdx : log[i].r = IDA_TSTOP_RETURN /\ log[i].t < t_eval[Len(t_eval)] }
EntriesOf(idx, op) == { j \in idx : log[j].op = op }
\* the t_eval point after the point x
EvalAfter(x) == t_eval[1 + CHOOSE k \in 1 .. Len(t_eval) - 1 : t_eval[k] = x]
\* What follows the stop i in its iteration: after the snapshots, exactly
\* IDASetStopTime(next point), IDAReInit(t_val), IDASensReInit with
\* sensitivities, ConsistentInitialization(t_val, next point, fix-differential)
\* and the one call that carries it out.
StopSequence(i) ==
  LET it == IterIdx(i)
      st == EntriesOf(it, "IDASetStopTime")
      re == EntriesOf(it, "IDAReInit")
      sr == EntriesOf(it, "IDASensReInit")
      ci == EntriesOf(it, "ConsistentInitialization")
      m == Last(it)
      n == IF sensitivity THEN 4 ELSE 3
  IN /\ log[i].t \in { t_eval[k] : k \in 1 .. Len(t_eval) - 1 }
     /\ st = {m - n} /\ re = {m - n + 1} /\ ci = {m - 1}
     /\ sr = IF sensitivity THEN {m - 2} ELSE {}
     /\ log[m].op \in {"IDACalcIC", "residual_eval"}
     /\ log[m - n].t = EvalAfter(log[i].t)
     /\ log[m - n + 1].t = log[i].t
     /\ log[m - 1].t = log[i].t
     /\ log[m - 1].r = IDA_YA_YDP_INIT
     /\ log[m - 1].t_next = EvalAfter(log[i].t)
StopHandling ==
  Running =>
    /\ \A i \in NonFinalStops : StopSequence(i)
    /\ pc = "stepping" =>
         /\ i_eval = 1 + Cardinality(NonFinalStops)
         /\ t_eval_next = t_eval[i_eval + 1]
    /\ Cardinality(EntriesOf(BeforeSteps, "ConsistentInitialization"))
         = IF solver_opts.calc_ic THEN 1 ELSE 0

\* C25: after every stop-time return that is not the final one the driver,
\* in this order and before the next IDASolve, advances i_eval by one, sets
\* the stop time t_eval[i_eval], reinitialises at t_val and runs the
\* consistent initialisation in fix-differential mode, whatever calc_ic is;
\* at t_eval[0] the consistent initialisation runs once if calc_ic holds and
\* not at all otherwise.
C25_StopHandling == StopHandling
\* a solve without calc_ic that passed a non-final stop and stepped on
C25_Witness ==
  /\ pc = "stepping" /\ ~solver_opts.calc_ic
  /\ \E i \in NonFinalStops : \E j \in StepIdx : j > i

\* the consistent-initialisation calls of the log and what carried them out
InitIdx == EntriesOf(LogIdx, "ConsistentInitialization")
Shortcut(c) == is_ODE /\ log[c].r = IDA_YA_YDP_INIT
\* no IDASolve return, and so no later change of the working vectors, after c
LatestCall(c) == \A k \in StepIdx : k < c
InitDispatch ==
  Running =>
    /\ \A c \in InitIdx :
         /\ c + 1 \in LogIdx
         /\ Shortcut(c) =>
              /\ log[c + 1].op = "residual_eval"
              /\ log[c + 1].t = log[c].t
              /\ log[c + 1].ydot = Val("zero", 0)
              /\ LatestCall(c) => (yy = log[c + 1].y /\ yp = Val("res", log[c].t))
         /\ ~Shortcut(c) =>
              /\ log[c + 1].op = "IDACalcIC"
              /\ log[c + 1].icopt = log[c].r
              /\ log[c + 1].t = log[c].t_next
    /\ \A j \in EntriesOf(LogIdx, "IDACalcIC") \cup EntriesOf(LogIdx, "residual_eval") :
         j - 1 \in InitIdx

\* C26: ConsistentInitialization takes the ODE shortcut exactly when is_ODE
\* holds and the requested mode is fix-differential: then IDACalcIC is not
\* called, y stays as it was, the scratch vector is zeroed and yp becomes the
\* residual at (t, y, 0); in every other case IDACalcIC is called with the
\* requested option and t_next and the driver evaluates no residual.
C26_InitDispatch == InitDispatch
\* an ODE driver asked for the all-y mode at t_eval[0], which went to
\* IDACalcIC, and then took the shortcut after a stop
C26_Witness ==
  /\ pc = "stepping" /\ is_ODE
  /\ \E c \in InitIdx : log[c].r = IDA_Y_INIT /\ log[c + 1].op = "IDACalcIC"
  /\ \E c \in InitIdx : LatestCall(c) /\ log[c + 1].op = "residual_eval"

\* each consistent-initialisation call is at a t_eval point and looks ahead
\* to the next one
InitLooksAhead ==
  Running =>
    \A c \in InitIdx :
      /\ log[c].t_next > log[c].t
      /\ \E k \in 1 .. Len(t_eval) - 1 :
           /\ log[c].t = t_eval[k] /\ log[c].t_next = t_eval[k + 1]
           /\ c \in BeforeSteps <=> k = 1

\* C27: every ConsistentInitialization call receives a t_next strictly
\* greater than its t_val: t_eval[1] at t_eval[0], and the newly set stop
\* time t_eval[i_eval] after a stop at t_eval[i_eval - 1].
C27_InitLooksAhead == InitLooksAhead
\* calc_ic on, a call at t_eval[0] and one after a stop, in one solve
C27_Witness ==
  /\ pc = "stepping"
  /\ \E c \in InitIdx : c \in BeforeSteps
  /\ \E c \in InitIdx : c \notin BeforeSteps /\ log[c].t_next = t_eval[3]

\* ------------------------------------------- snapshots and the interp catch-up
\* the IDASolve returns after which a snapshot at t_val is written
SnapshotSteps ==
  { i \in GoodIdx :
      \/ log[i].r \in {IDA_TSTOP_RETURN, IDA_ROOT_RETURN}
      \/ save_adaptive_steps /\ log[i].r = IDA_SUCCESS }
\* Step i recorded interp points before its snapshot: between the last of
\* them and the snapshot the working vectors are fetched again for t_val.
Refetched(i) ==
  LET ws == EntriesOf(IterIdx(i), "SetStep")
      w == Last(ws)
      p == Last(ws \ {w})
  IN Cardinality(ws) >= 2 =>
       /\ log[w].t = log[i].t
       /\ \E d \in p + 1 .. w - 1 :
            /\ log[d].op = "IDAGetDky" /\ log[d].t = log[i].t /\ log[d].r = 0
            /\ sensitivity =>
                 \E e \in d + 1 .. w - 1 :
                   log[e].op = "IDAGetSensDky" /\ log[e].t = log[i].t /\ log[e].r = 0
\* row k of the recorder was computed from vectors obtained for the time t[k]
RowOwnTime(k) ==
  /\ y[k].v.at = t[k]
  /\ save_outputs_only => y[k].tval = t[k]
  /\ sensitivity =>
       /\ yS[k].v.at = t[k]
       /\ save_outputs_only => (yS[k].w.at = t[k] /\ yS[k].tval = t[k])
SnapshotsOwnTime ==
  Running =>
    /\ \A i \in SnapshotSteps : Refetched(i)
    /\ \A k \in 1 .. i_save : RowOwnTime(k)

\* C28: whenever a snapshot at t_val (adaptive, stop or root) is written in
\* a step in which the interp catch-up recorded points, the working state and,
\* with sensitivities, the working sensitivities are fetched again with
\* IDAGetDky / IDAGetSensDky at t_val first; every recorded snapshot holds a
\* state and sensitivities obtained for its own time.
C28_SnapshotsOwnTime == SnapshotsOwnTime
\* with sensitivities, a step that recorded an interp point strictly before
\* t_val and then the snapshot at t_val
C28_Witness ==
  /\ Running /\ sensitivity
  /\ \E i \in SnapshotSteps :
       LET ws == EntriesOf(IterIdx(i), "SetStep")
       IN Cardinality(ws) >= 2 /\ \E p \in ws : log[p].t < log[i].t

\* the loop iteration of a plain-success IDASolve return (neither stop nor
\* root) has just been completed
AfterPlainSuccess ==
  /\ pc = "stepping" /\ StepIdx # {}
  /\ Last(StepIdx) \in GoodIdx /\ log[Last(StepIdx)].r = IDA_SUCCESS
\* the snapshots that iteration recorded
LastWrites == EntriesOf(IterIdx(Last(StepIdx)), "SetStep")

\* C29: after the interp catch-up of a plain-success step the working state
\* y holds the state at t_val, for both values of save_adaptive.
C29_WorkingStateAtTval == AfterPlainSuccess => yy.at = t_val

\* C29, amended: with save_adaptive the working state holds the state at
\* t_val (fetched again for the adaptive snapshot when the catch-up ran);
\* without save_adaptive it holds what IDASolve returned only if the catch-up
\* recorded no point, and otherwise the state interpolated at the last interp
\* point recorded.
C29_WorkingStateAfterCatchUp ==
  AfterPlainSuccess =>
    IF save_adaptive_steps
      THEN yy.at = t_val /\ yy.src \in {"step", "dky"}
           /\ (Cardinality(LastWrites) >= 2 => yy = Val("dky", t_val))
    ELSE IF LastWrites = {} THEN yy = Val("step", t_val)
    ELSE yy = Val("dky", log[Last(LastWrites)].t)
\* without save_adaptive, a plain-success step whose catch-up recorded an
\* interp point before t_val
C29_Witness ==
  /\ AfterPlainSuccess /\ ~save_adaptive_steps /\ t_interp # <<>>
  /\ LastWrites # {} /\ log[Last(LastWrites)].t < t_val
  /\ yy.at < t_val

\* ------------------------------------------------------------------ C31
\* the failing IDACalcIC calls of this solve
FailedInits == { i \in EntriesOf(LogIdx, "IDACalcIC") : log[i].r < 0 }
\* what lines 429-437 leave in retval after the IDASolve logged at k
FlagAfter(k) ==
  IF log[k].r >= 0 /\ log[k].t = PrevReturn(k) THEN IDA_ERR_FAIL ELSE log[k].r
FlagFromLastStep ==
  /\ Done => result.flag = FlagAfter(Last(StepIdx))
  /\ \A i \in FailedInits :
       (\A k \in StepIdx : k < i) => pc = "stepping" /\ retval # log[i].r

\* C31: the flag of the result is the status of the last IDASolve call, or
\* IDA_ERR_FAIL when that call repeated the previous time; the statuses of
\* IDASetStopTime, IDAReInit and IDACalcIC never reach it, and after a failed
\* IDACalcIC the driver goes on stepping.
C31_FlagFromLastStep == FlagFromLastStep
\* a finished solve whose last consistent initialisation failed, after which
\* steps were taken and the flag is the final stop's status
C31_Witness ==
  /\ Done /\ FailedInits # {}
  /\ \E i \in FailedInits : \E k \in StepIdx : k > i
  /\ result.flag = IDA_TSTOP_RETURN
  /\ \E i \in FailedInits : log[i].icopt = IDA_YA_YDP_INIT

\* ------------------------------------------------------------------ C32
\* What each back-end object was created in or on (lines 35-51, 229-252 and
\* IDASensInit in Initialize): everything in the context, the sensitivity
\* module on the integrator memory.
DependsOn(r) ==
  IF r = "sunctx" THEN {}
  ELSE IF r = "sens" THEN {"ida_mem", "sunctx"}
  ELSE {"sunctx"}
\* the place of a resource in the order of release
Rank(r) ==
  CASE r = "sens" -> 1
    [] r = "LS" -> 2
    [] r = "J" -> 3
    [] r \in {"vectors", "sens_vectors"} -> 4
    [] r = "ida_mem" -> 5
    [] r = "sunctx" -> 6
ReleasedInOrder(held, f) ==
  /\ { f[i] : i \in 1 .. Len(f) } = held
  /\ \A i, j \in 1 .. Len(f) : i < j => f[i] # f[j] /\ Rank(f[i]) <= Rank(f[j])
  /\ \A i, j \in 1 .. Len(f) : i < j => f[i] \notin DependsOn(f[j])
DestructorRan == ctor'.freed # ctor.freed
ReleaseOrder ==
  DestructorRan => /\ ReleasedInOrder(ctor.alive, ctor'.freed)
                   /\ ctor'.alive = {}

\* C32: the destructor releases every back-end object the driver holds
\* exactly once, in the order sensitivity module, linear solver, matrix,
\* vectors and sensitivity vector arrays, integrator memory, context, and
\* none after an object it was created in or on.
C32_ReleaseOrder == [][ReleaseOrder]_vars
\* a destroyed driver with sensitivities: all seven kinds of object released
C32_Witness ==
  /\ ctor.pc = "destroyed"
  /\ Len(ctor.freed) = 7
  /\ ctor.freed[1] = "sens" /\ ctor.freed[7] = "sunctx"

\* ------------------------------------------------------------------ C33
\* how often v occurs among the entries idx of the sequence w
Occurrences(w, idx, v) == Cardinality({ k \in idx : w[k] = v })
SlidingWindow ==
  (guard.pc = "live" /\ ~Disabled(guard.g)) =>
    LET w == guard.g.dt_window_
        ws == guard.g.window_size_
        th == guard.g.threshold_sec_
        k == Len(guard.added)
        m == IF k < ws THEN k ELSE ws
        recent == (k - m + 1) .. k
    IN /\ Len(w) = ws
       /\ guard.g.idx_ \in 0 .. ws - 1
       /\ guard.g.idx_ = k % ws
       /\ \A v \in (-MaxDt .. MaxDt) \cup {th} :
            Occurrences(w, 1 .. ws, v)
              = Occurrences(guard.added, recent, v) + (IF v = th THEN ws - m ELSE 0)
       /\ \A n \in recent : w[((n - 1) % ws) + 1] = guard.added[n]

\* C33: the window of an enabled guard has window_size entries, idx_ is in
\* [0, window_size), and after k AddDt calls since construction or Initialize
\* the window holds the last min(k, window_size) values added and otherwise
\* pre-filled thresholds: each AddDt replaces the oldest entry.
C33_SlidingWindow == SlidingWindow
\* a window of two after three calls: the first value added was overwritten
C33_Witness ==
  /\ guard.pc = "live" /\ guard.g.window_size_ = 2 /\ guard.g.threshold_sec_ = 2
  /\ guard.added = <<1, 0, -1>>
  /\ guard.g.dt_window_ = <<-1, 0>>
  /\ guard.g.idx_ = 1

\* ------------------------------------------------------------------ C34
\* Every snapshot write of output sensitivities within the sizes above.
InitOut ==
  /\ DriverParked
  /\ asm = AsmIdle
  /\ ctor = Constructed(0)
  /\ guard = NoGuard
  /\ data = NoData
  /\ pert = NoPerturb
  /\ reg = NoRegistry
  /\ \E P \in 1 .. MaxOutParams, N \in 1 .. MaxExprs :
       \E fs \in [1 .. N -> OutExpressions(P, MaxOutStates)] :
          outs = OutEntered(P, MaxOutStates, fs)
NextOut == OutExpr \/ OutReturn
SpecOut == InitOut /\ [][NextOut]_vars

\* the expression that owns entry e of the row, and e's place within it
OwnerOf(fs, e) ==
  CHOOSE k \in 1 .. Len(fs) :
    ReturnVectorLength(fs, k - 1) < e /\ e <= ReturnVectorLength(fs, k)
\* the sensitivity of output entry e to parameter p: explicit partial plus
\* the chain-rule sum over the states
TotalDerivative(o, p, e) ==
  LET k == OwnerOf(o.fs, e)
      r == e - ReturnVectorLength(o.fs, k - 1)
      f == o.fs[k]
      RECURSIVE sum(_)
      sum(c) == IF c = 0 THEN 0 ELSE sum(c - 1) + f.dy[<<r, c>>] * yS_val(p, c)
  IN f.dp[<<p, r>>] + sum(o.n)
RowComplete(o) ==
  \A p \in 1 .. o.P : \A e \in 1 .. ReturnVectorLength(o.fs, Len(o.fs)) :
     o.row[p][e] = NewCell(TotalDerivative(o, p, e))
ScalarOutputs(o) == \A k \in 1 .. Len(o.fs) : o.fs[k].nnz_out = 1

\* C34: a snapshot write in outputs-only mode with sensitivities assigns to
\* every one of the L entries of every parameter's row the explicit partial
\* plus the chain-rule sum, leaving no entry at its old value, also for
\* output expressions with more than one nonzero.
C34_RowComplete == outs.pc = "written" => RowComplete(outs)
\* the same for output expressions of one entry each
C34_RowCompleteScalarOutputs ==
  (outs.pc = "written" /\ ScalarOutputs(outs)) => RowComplete(outs)

\* ------------------------------------------------------------------ C35
\* Every call of perturb_time within the sizes above.
InitPerturb ==
  /\ DriverParked
  /\ asm = AsmIdle
  /\ ctor = Constructed(0)
  /\ guard = NoGuard
  /\ data = NoData
  /\ outs = NoOut
  /\ reg = NoRegistry
  /\ \E n \in -(MaxPerturbT * TimeDen) .. MaxPerturbT * TimeDen,
        increasing \in BOOLEAN, d \in 2 .. MaxDeltaInv :
       pert = PerturbCalled(Frac(n, TimeDen), increasing, Frac(1, d))
NextPerturb == PerturbReturn
SpecPerturb == InitPerturb /\ [][NextPerturb]_vars

Progress ==
  pert.pc = "returned" =>
    IF pert.increasing THEN FracLess(pert.t, pert.value)
    ELSE FracLess(pert.value, pert.t)

\* C35: for every time t, perturb_time(t, true) is strictly greater than t
\* and perturb_time(t, false) is strictly less than t.
C35_Progress == Progress
\* what does hold: progress when increasing from t > -1 and when decreasing
\* from t < 1
C35_ProgressNearZero ==
  (pert.pc = "returned"
     /\ (IF pert.increasing THEN FracLess(Frac(-1, 1), pert.t)
         ELSE FracLess(pert.t, Frac(1, 1)))) => Progress

\* ------------------------------------------------------------------ C36
\* Solves on drivers of up to MaxMaskLen states of every type, with values
\* at, below and above the 0.999 of the test.
MaxMaskLen == 2
MaskValues == {Algebraic, MaskThreshold, Differential}
AllMasks == UNION { [1 .. n -> MaskValues] : n \in 0 .. MaxMaskLen }
InitOde ==
  /\ InitWith(AllMasks)
  /\ number_of_parameters = 0
  /\ ~save_outputs_only
  /\ ~solver_opts.init_all_y_ic
SpecOde == InitOde /\ [][Next]_vars

\* C36 (as stated): is_ODE is the conjunction over all states of
\* id[i] > 0.999, as Initialize computed it, before, during and after a solve.
C36_IsOdeConjunction ==
  is_ODE = (\A i \in 1 .. Len(ctor.id) : ctor.id[i] > MaskThreshold)

\* C36 (amended): is_ODE is number_of_states > 0 and the conjunction over all
\* states of id[i] > 0.999, as Initialize computed it, before, during and
\* after a solve.
C36_IsOdeNonEmptyConjunction ==
  /\ is_ODE = (Len(ctor.id) > 0 /\ \A i \in 1 .. Len(ctor.id) : ctor.id[i] > MaskThreshold)
  /\ is_ODE = ctor.is_ODE
\* a finished solve on a driver of two states, one of them at exactly 0.999
C36_Witness ==
  /\ Done /\ ~is_ODE /\ ctor.id = <<Differential, MaskThreshold>>
  /\ \E i \in LogIdx : log[i].op = "IDACalcIC"

\* ------------------------------------------------------------------ C37
\* the back-end calls that advance or restart the integration
Integrating ==
  {"IDASolve", "IDAReInit", "IDASensReInit", "ConsistentInitialization",
   "IDACalcIC", "residual_eval"}
\* solve is in its loop and another IDASolve return is possible
CanStep == ENABLED (StepFail \/ StepDuplicate \/ StepAdvance)
Terminates ==
  \* solve is before its loop, in it, or has returned a result
  /\ pc \in {"idle", "stepping", "done"}
  \* every IDASolve return but a failing or repeating one is later than the
  \* one before, so there are no more of them than times up to the last stop
  /\ pc # "idle" => Cardinality(StepIdx) <= t_eval[Len(t_eval)] - t_eval[1] + 1
  /\ pc = "stepping" => CanStep
  \* the result carries the status the loop ended with
  /\ Done => /\ result.flag = retval
             /\ \A j \in IterIdx(Last(StepIdx)) : log[j].op \notin Integrating
  /\ Done => ~CanStep

\* C37: with a back-end whose every step fails or returns a later time not
\* beyond the stop time set, solve returns a result after finitely many steps
\* and makes no step, reinitialisation or consistent initialisation once the
\* loop has ended.
C37_Terminates == Terminates
\* the same for the runs in which every read of t_interp is inside it
TerminatesDefinedRuns == (save_interp_steps => t_interp # <<>>) => Terminates

\* ------------------------------------------------------------------ C38
StopCursor ==
  \* whenever solve has read t_eval[i_eval], the index is inside t_eval and,
  \* while solve goes on or has returned, t_eval_next is what was read there
  /\ pc' # "idle" => i_eval' <= Len(t_eval') - 1
  /\ pc' \in {"stepping", "done"} =>
       1 <= i_eval' /\ t_eval_next' = t_eval'[i_eval' + 1]
  \* in the loop the cursor moves by one, after a stop that is not the last
  /\ (pc = "stepping" /\ i_eval' # i_eval) =>
       /\ i_eval' = i_eval + 1
       /\ retval' = IDA_TSTOP_RETURN
       /\ t_val' = t_eval[i_eval + 1]
       /\ t_val' < t_eval[Len(t_eval)]

\* C38: every read of t_eval[i_eval] has 1 <= i_eval <= len(t_eval) - 1; the
\* stop cursor advances only after a stop that is not the last and never past
\* the last element (t_eval has two points or more and a stop return carries
\* the stop time that was set).
C38_StopCursor == [][StopCursor]_vars
\* a finished solve over three stops: the cursor ended on the last element
C38_Witness ==
  /\ Done /\ Len(t_eval) = 3 /\ i_eval = 2 /\ t_eval_next = t_eval[3]
  /\ retval = IDA_TSTOP_RETURN /\ t_val = t_eval[3]

\* ------------------------------------------------------------------ C39
InterpReadsInRange ==
  pc # "idle" =>
    \* no read of t_interp was outside the vector
    /\ pc # "undefined"
    \* the interp cursor is at most len(t_interp)
    /\ i_interp <= Len(t_interp)
    \* and t_interp_next is the element at the cursor, while there is one
    /\ (save_interp_steps /\ i_interp < Len(t_interp) /\ pc \in {"stepping", "done"})
          => t_interp_next = t_interp[i_interp + 1]

\* C39: solve reads t_interp only at indices 0 <= i < len(t_interp), for
\* every save_interp and every length of t_interp (also save_interp with an
\* empty t_interp), and the interp cursor never exceeds len(t_interp).
C39_InterpReadsInRange == InterpReadsInRange
\* the same for the solves that have a t_interp point whenever save_interp is set
InterpReadsInRangeDefinedRuns ==
  (save_interp_steps => t_interp # <<>>) => InterpReadsInRange

\* ------------------------------------------------------------------ C40
\* Every sequence of creations, destructions and dispatches within the
\* sizes above.
InitReg ==
  /\ DriverParked
  /\ asm = AsmIdle
  /\ ctor = Constructed(0)
  /\ guard = NoGuard
  /\ data = NoData
  /\ outs = NoOut
  /\ pert = NoPerturb
  /\ reg = NoRegistry
NextReg == RegCreate \/ RegDestroy \/ RegDispatch
SpecReg == InitReg /\ [][NextReg]_vars

RegistryExact ==
  \* the indices handed out are pairwise distinct
  /\ \A i, j \in 1 .. Len(reg.handed) : i # j => reg.handed[i] # reg.handed[j]
  \* the registry has an entry exactly for the live instances ...
  /\ DOMAIN reg.idaklu_jax_instances = reg.live
  \* ... and the entry is the instance of that index, never a null pointer
  /\ \A i \in DOMAIN reg.idaklu_jax_instances : reg.idaklu_jax_instances[i] = JaxPtr(i)

\* C40: after any sequence of create_idaklu_jax calls, IdakluJax
\* destructions and dispatches with any index, the indices handed out are
\* pairwise distinct and idaklu_jax_instances maps exactly the indices of the
\* live instances to them, with no entry for a destroyed or never-created
\* index and no null instance.
C40_RegistryExact == RegistryExact
\* the same as long as every dispatch named the index of a live instance
RegistryExactLiveDispatches ==
  (\A k \in 1 .. Len(reg.dispatched) : reg.dispatched[k].target # nullptr)
     => RegistryExact
====
